---- MODULE Spec2Model ----
(***************************************************************************)
(* VaultStack: the client-side crypto envelope (VaultCrypto), the local    *)
(* store (vaultDB over Dexie) and its snapshot synchronisation with the    *)
(* file server's /api/vault-items endpoints.                               *)
(***************************************************************************)
EXTENDS Integers, Sequences, FiniteSets, TLC

(***************************************************************************)
(* Strings.  A string is the sequence of its characters.  Ch(c) is an      *)
(* ordinary character, Colon the ':' delimiter; a hex or base64 blob       *)
(* (which never holds a ':') is one token.                                 *)
(***************************************************************************)
Ch(c) == [t |-> "ch", c |-> c]
Colon == Ch(":")
Hex(n) == [t |-> "hex", n |-> n]
\* a field that is not set (JavaScript undefined); no string equals it
Undefined == <<[t |-> "undefined"]>>
EmptyString == <<>>

\* String.prototype.split(':')
RECURSIVE split(_)
split(str) ==
    IF \A i \in 1..Len(str) : str[i] # Colon
    THEN <<str>>
    ELSE LET i == CHOOSE k \in 1..Len(str) :
                     str[k] = Colon /\ \A j \in 1..(k - 1) : str[j] # Colon
         IN  <<SubSeq(str, 1, i - 1)>> \o split(SubSeq(str, i + 1, Len(str)))

\* String.prototype.includes(':')
includesColon(str) == \E i \in 1..Len(str) : str[i] = Colon

\* JavaScript truthiness of an optional string field
Truthy(v) == v # Undefined /\ v # EmptyString

\* the outcome of a call: a returned value or a thrown Error(message)
Return(v) == [ok |-> TRUE, val |-> v]
Throw(m) == [ok |-> FALSE, err |-> m]

ErrFormat == "Ongeldig encrypted data formaat"
ErrEmpty == "Decryptie mislukt - mogelijk verkeerd wachtwoord"
ErrMalformedUtf8 == "Malformed UTF-8 data"
ErrDecrypt == "Kon gegevens niet ontsleutelen - controleer je master wachtwoord"

(***************************************************************************)
(* VaultCrypto                                                             *)
(***************************************************************************)
Passwords == {"w1", "w2"}
NoPassword == ""

\* generateSalt draws 32 random bytes.  Three representatives: what the
\* bytes of a ciphertext made with the salt decode to under a key that is
\* not the one it was made with differs between them (WrongKeyBytes).
Salts == {0, 1, 2}
\* generateIV draws 16 random bytes; one representative.
IVs == {0}

generateSalt(n) == <<Hex(n)>>
generateIV(n) == <<Hex(n)>>

\* PBKDF2(password, salt): the same (password, salt) gives the same key,
\* another password or another salt another key.
deriveKey(password, salt) == [pw |-> password, salt |-> salt]

\* CryptoJS.AES.encrypt(data, key, ...).toString(): one base64 blob
AESEncrypt(data, key) == <<[t |-> "b64", key |-> key, data |-> data, intact |-> TRUE]>>

\* encrypt writing the envelope as iv:salt:ciphertext
encryptIvFirst(data, masterPassword, saltBytes, ivBytes) ==
    LET salt == generateSalt(saltBytes)
        iv == generateIV(ivBytes)
        key == deriveKey(masterPassword, salt)
    IN  iv \o <<Colon>> \o salt \o <<Colon>> \o AESEncrypt(data, key)

encrypt(data, masterPassword, saltBytes, ivBytes) ==
    LET salt == generateSalt(saltBytes)
        iv == generateIV(ivBytes)
        key == deriveKey(masterPassword, salt)
    IN  salt \o <<Colon>> \o iv \o <<Colon>> \o AESEncrypt(data, key)

\* a string that is neither valid UTF-8 failure nor empty: the bytes happened
\* to decode
Garbage == <<Ch("?")>>

\* AES-CBC carries no authentication tag.  Decrypting with a key other than
\* the one used (or decrypting altered ciphertext) yields pseudo-random
\* bytes and Pkcs7 unpadding strips whatever the last byte says: the bytes
\* are not valid UTF-8, or nothing is left, or they decode to some text.
\* Which one is fixed by the ciphertext bytes; text that is no ciphertext
\* blob holds no full cipher block, so nothing is left.
WrongKeyBytes(encrypted, key) ==
    IF Len(encrypted) = 1 /\ encrypted[1].t = "b64"
    THEN CASE encrypted[1].key.salt[1].n % 3 = 0 -> "malformed"
           [] encrypted[1].key.salt[1].n % 3 = 1 -> "empty"
           [] OTHER -> "garbage"
    ELSE "empty"

\* CryptoJS.AES.decrypt(encrypted, key, ...).toString(CryptoJS.enc.Utf8)
AESDecryptUtf8(encrypted, key) ==
    IF /\ Len(encrypted) = 1
       /\ encrypted[1].t = "b64"
       /\ encrypted[1].intact
       /\ encrypted[1].key = key
    THEN Return(encrypted[1].data)
    ELSE CASE WrongKeyBytes(encrypted, key) = "malformed" -> Throw(ErrMalformedUtf8)
           [] WrongKeyBytes(encrypted, key) = "empty" -> Return(EmptyString)
           [] OTHER -> Return(Garbage)

\* the try block of decrypt
decryptTry(encryptedData, masterPassword) ==
    LET parts == split(encryptedData)
    IN  IF Len(parts) # 3
        THEN Throw(ErrFormat)
        ELSE LET key == deriveKey(masterPassword, parts[1])
                 decrypted == AESDecryptUtf8(parts[3], key)
             IN  IF ~decrypted.ok THEN decrypted
                 ELSE IF decrypted.val = EmptyString THEN Throw(ErrEmpty)
                 ELSE decrypted

\* the catch block of decrypt: whatever was thrown, one Error is raised
decryptCatch(r) == IF r.ok THEN r ELSE Throw(ErrDecrypt)

decrypt(encryptedData, masterPassword) ==
    decryptCatch(decryptTry(encryptedData, masterPassword))

sensitiveFields == {"password", "username", "description", "url", "linkUrl"}

\* the order in which encryptVaultItem and decryptVaultItem visit the fields
fieldOrder == <<"password", "username", "description", "url", "linkUrl">>

\* the sensitive fields of item that encryptVaultItem encrypts
FieldsToEncrypt(item) == {f \in sensitiveFields \cap DOMAIN item : Truthy(item[f])}

\* the number of encrypt calls encryptVaultItem makes before it reaches f
DrawsBefore(item, f) ==
    LET at == CHOOSE i \in 1..Len(fieldOrder) : fieldOrder[i] = f
    IN  Cardinality({i \in 1..(at - 1) : fieldOrder[i] \in FieldsToEncrypt(item)})

\* WordArray.random: the k-th draw of a generator in state r
randomBytes(r, k) == (r + k) % Cardinality(Salts)

\* encryptVaultItem storing every field as given
encryptVaultItemNone(item, masterPassword, r) == item

\* r is the state of the random generator when the call starts
encryptVaultItem(item, masterPassword, r) ==
    [f \in DOMAIN item |->
        IF f \in sensitiveFields /\ Truthy(item[f])
        THEN encrypt(item[f], masterPassword,
                     randomBytes(r, DrawsBefore(item, f)), CHOOSE n \in IVs : TRUE)
        ELSE item[f]]

\* one field of decryptVaultItem, with the try/catch around decrypt: the
\* value the field gets
\* decryptVaultItem's loop body without its try/catch
decryptFieldNoCatch(value, masterPassword) == decrypt(value, masterPassword)

decryptField(value, masterPassword) ==
    LET decrypted == decrypt(value, masterPassword)
    IN  IF decrypted.ok THEN decrypted ELSE Return(value)

decryptVaultItem(encryptedItem, masterPassword) ==
    LET visited == {f \in sensitiveFields \cap DOMAIN encryptedItem :
                       Truthy(encryptedItem[f]) /\ includesColon(encryptedItem[f])}
        thrown == {f \in visited : ~decryptField(encryptedItem[f], masterPassword).ok}
    IN  IF thrown # {}
        THEN Throw(ErrDecrypt)
        ELSE Return([f \in DOMAIN encryptedItem |->
                        IF f \in visited
                        THEN decryptField(encryptedItem[f], masterPassword).val
                        ELSE encryptedItem[f]])

(***************************************************************************)
(* Vault items                                                             *)
(***************************************************************************)
\* bounds of the model
MaxCalls == 2
MaxClock == 1
MaxSnapshot == 2
MaxRows == 3

ItemFields == {"id", "name", "category", "createdAt", "updatedAt", "syncStatus"}
                  \cup sensitiveFields
InputFields == {"name", "category"} \cup sensitiveFields
\* syncStatus is optional
NoStatus == "undefined"

\* what callers hand to addItem
Gmail == [name |-> "a", category |-> "passwords", password |-> <<Ch("p")>>,
          username |-> <<Ch("u")>>, description |-> Undefined,
          url |-> Undefined, linkUrl |-> Undefined]
Note == [name |-> "a", category |-> "notes", password |-> Undefined,
         username |-> Undefined, description |-> EmptyString,
         url |-> Undefined, linkUrl |-> Undefined]
Link == [name |-> "b", category |-> "notes", password |-> Undefined,
         username |-> Undefined, description |-> Undefined,
         url |-> Undefined, linkUrl |-> <<Ch("h"), Colon, Ch("x")>>]
AddInputs == {Gmail, Note, Link}

\* what callers hand to updateItem: any subset of the fields
UpdateInputs == {[password |-> <<Ch("q")>>],
                 [description |-> EmptyString, name |-> "b"],
                 [syncStatus |-> "error"]}

\* the Date <-> JSON conversions of an item on its way to and from the server
String(n) == [digits |-> n]
toISOString(t) == [iso |-> t]
newDate(v) == v.iso

\* the subsequence of s at the indices in keep
RECURSIVE SubseqAt(_, _, _)
SubseqAt(s, keep, i) ==
    IF i > Len(s) THEN <<>>
    ELSE (IF i \in keep THEN <<s[i]>> ELSE <<>>) \o SubseqAt(s, keep, i + 1)

\* the table's rows with the given primary key
Row(items, id) == SelectSeq(items, LAMBDA it : it.id = id)

(***************************************************************************)
(* vaultDB: the local table (Dexie, '++id') and its helpers                *)
(***************************************************************************)
VARIABLES
    masterPassword,  \* vaultDB._masterPassword
    vaultItems,      \* db.vaultItems: the rows in primary-key order
    nextId,          \* the key generator of '++id'
    now,             \* the clock read by new Date()
    rng,             \* the state of the random generator behind WordArray.random
    serverUp,        \* whether the file server answers requests
    serverFile,      \* the server's vault-items.enc
    pushes,          \* the background syncVaultItemsToServer calls
    sync,            \* the autoSyncVaultItems call
    calls,           \* how many calls the callers have made so far
    crypto,          \* the VaultCrypto calls of CryptoSpec
    read,            \* the last read of the local table and what it returned
    auth,            \* AuthService: localStorage, sessionStorage, the call under way
    fileServer,      \* the file server: its files/ and metadata/ and the request under way
    upload,          \* the uploadFileToServer call
    deletion,        \* the deleteItem call
    download,        \* the downloadFileFromServer call
    retry            \* the server's retryOperation call

\* the state outside the vault's table and its synchronisation
others == <<read, auth, fileServer, upload, deletion, download, retry>>
\* ... and the same leaving one out
othersButRead == <<auth, fileServer, upload, deletion, download, retry>>
othersButAuth == <<read, fileServer, upload, deletion, download, retry>>
othersButFileServer == <<read, auth, upload, deletion, download, retry>>
othersButUpload == <<read, auth, fileServer, deletion, download, retry>>
othersButDeletion == <<read, auth, fileServer, upload, download, retry>>
othersButDownload == <<read, auth, fileServer, upload, deletion, retry>>
othersButRetry == <<read, auth, fileServer, upload, deletion, download>>

vars == <<masterPassword, vaultItems, nextId, now, rng, serverUp, serverFile,
          pushes, sync, calls, crypto, others>>

itemKey(item) == <<item.name, item.category, item.createdAt>>

\* a clean-up that keeps the last item of each key
removeEarlierItems(allItems) ==
    LET duplicates == {i \in 1..Len(allItems) :
                          \E j \in (i + 1)..Len(allItems) :
                              <<allItems[j].name, allItems[j].category, allItems[j].createdAt>>
                                  = <<allItems[i].name, allItems[i].category, allItems[i].createdAt>>}
        table == SubseqAt(allItems, (1..Len(allItems)) \ duplicates, 1)
    IN  [table |-> table, removed |-> Cardinality(duplicates), remaining |-> Len(table)]

\* a clean-up that removes nothing
removeNoItems(allItems) ==
    [table |-> allItems, removed |-> 0, remaining |-> Len(allItems)]

removeDuplicateItems(allItems) ==
    LET duplicates == {i \in 1..Len(allItems) :
                          \E j \in 1..(i - 1) : itemKey(allItems[j]) = itemKey(allItems[i])}
        table == SubseqAt(allItems, (1..Len(allItems)) \ duplicates, 1)
    IN  [table |-> table, removed |-> Cardinality(duplicates), remaining |-> Len(table)]

\* db.vaultItems.orderBy('createdAt').reverse().toArray()
RECURSIVE orderByCreatedAtReverse(_)
orderByCreatedAtReverse(items) ==
    IF items = <<>> THEN <<>>
    ELSE LET last == CHOOSE i \in 1..Len(items) : \A j \in 1..Len(items) :
                        \/ items[j].createdAt < items[i].createdAt
                        \/ items[j].createdAt = items[i].createdAt /\ items[j].id <= items[i].id
         IN  <<items[last]>>
                 \o orderByCreatedAtReverse(SubseqAt(items, (1..Len(items)) \ {last}, 1))

\* a getAllItems that decrypts whether or not a password is set
getAllItemsUnguarded(allItems, password) ==
    LET table == removeDuplicateItems(allItems).table
        items == orderByCreatedAtReverse(table)
    IN  [table |-> table,
         items |-> [i \in 1..Len(items) |->
                       IF decryptVaultItem(items[i], password).ok
                       THEN decryptVaultItem(items[i], password).val
                       ELSE items[i]],
         decrypts |-> Len(items)]

\* table: the rows left by the clean-up, items: what the caller gets
getAllItems(allItems, password) ==
    LET table == removeDuplicateItems(allItems).table
        items == orderByCreatedAtReverse(table)
    IN  [table |-> table,
         items |-> IF password = NoPassword THEN items
                   ELSE [i \in 1..Len(items) |->
                            IF decryptVaultItem(items[i], password).ok
                            THEN decryptVaultItem(items[i], password).val
                            ELSE items[i]],
         decrypts |-> IF password = NoPassword THEN 0 ELSE Len(items)]

\* items.map(item => { try { decryptVaultItem } catch { item } }) behind
\* the if (!this._masterPassword) return items
decryptItems(items, password) ==
    [items |-> IF password = NoPassword THEN items
               ELSE [i \in 1..Len(items) |->
                        IF decryptVaultItem(items[i], password).ok
                        THEN decryptVaultItem(items[i], password).val
                        ELSE items[i]],
     decrypts |-> IF password = NoPassword THEN 0 ELSE Len(items)]

getItemById(allItems, id, password) == decryptItems(Row(allItems, id), password)

getItemsByCategory(allItems, category, password) ==
    decryptItems(SelectSeq(allItems, LAMBDA item : item.category = category), password)

\* String.prototype.toLowerCase, on the letters the model uses
lowerCase(c) == CASE c = "A" -> "a" [] c = "D" -> "d" [] c = "P" -> "p" [] OTHER -> c
toLowerCase(str) ==
    [i \in 1..Len(str) |->
        IF str[i].t = "ch" THEN Ch(lowerCase(str[i].c)) ELSE str[i]]
\* String.prototype.includes
includes(str, q) == \E i \in 1..(Len(str) - Len(q) + 1) : SubSeq(str, i, i + Len(q) - 1) = q
\* the characters of a one-letter name
chars(name) == <<Ch(name)>>

\* searchItems over the items getAllItems returned
searchFilter(allItems, query) ==
    SelectSeq(allItems, LAMBDA item :
        \/ includes(toLowerCase(chars(item.name)), toLowerCase(query))
        \/ Truthy(item.description)
              /\ includes(toLowerCase(item.description), toLowerCase(query)))

searchItems(allItems, query, password) ==
    LET all == getAllItems(allItems, password)
    IN  [table |-> all.table, items |-> searchFilter(all.items, query),
         decrypts |-> all.decrypts]

\* the row addItem stores
addItemRow(item, password, r, id, t) ==
    LET itemToStore == IF password # NoPassword
                       THEN encryptVaultItem(item, password, r) ELSE item
    IN  [f \in ItemFields |->
            CASE f = "id" -> id
              [] f \in {"createdAt", "updatedAt"} -> t
              [] f = "syncStatus" -> NoStatus
              [] OTHER -> itemToStore[f]]

\* an update that stamps createdAt as it stamps updatedAt
updateItemRowRestamping(row, updates, password, r, t) ==
    LET updatesToStore == IF password # NoPassword
                          THEN encryptVaultItem(updates, password, r) ELSE updates
    IN  [f \in DOMAIN row \cup DOMAIN updatesToStore \cup {"updatedAt"} |->
            CASE f \in {"updatedAt", "createdAt"} -> t
              [] f \in DOMAIN updatesToStore -> updatesToStore[f]
              [] OTHER -> row[f]]

\* the row updateItem leaves: Dexie's update(id, changes)
updateItemRow(row, updates, password, r, t) ==
    LET updatesToStore == IF password # NoPassword
                          THEN encryptVaultItem(updates, password, r) ELSE updates
    IN  [f \in DOMAIN row \cup DOMAIN updatesToStore \cup {"updatedAt"} |->
            CASE f = "updatedAt" -> t
              [] f \in DOMAIN updatesToStore -> updatesToStore[f]
              [] OTHER -> row[f]]

\* the generator after an encryptVaultItem call
rngAfter(item, password, r) ==
    IF password = NoPassword THEN r
    ELSE randomBytes(r, Cardinality(FieldsToEncrypt(item)))

(***************************************************************************)
(* The background push: syncVaultItemsToServer, called and not awaited     *)
(***************************************************************************)
\* the call returns without waiting for the push it started
callReturned(value) == [status |-> "returned", value |-> value]
\* updateItem resolves to nothing
Void == "void"

\* a call that awaits the push it started
syncVaultItemsToServerAwaited(op, id, arg, password, call) ==
    [op |-> op, id |-> id, arg |-> arg, pc |-> IF password = NoPassword THEN "failed" ELSE "probe",
     pw |-> password, items |-> <<>>, error |-> "",
     call |-> [status |-> "pending", value |-> call.value]]

\* a push that goes to the server whether or not a password is set
syncVaultItemsToServerProbing(op, id, arg, password, call) ==
    [op |-> op, id |-> id, arg |-> arg, pc |-> "probe", pw |-> password,
     items |-> <<>>, error |-> "", call |-> call]

\* the promise syncVaultItemsToServer() returns, at its first await
\* op, id, arg: the call that started it; call: how that call ended
syncVaultItemsToServerCall(op, id, arg, password, call) ==
    IF password = NoPassword
    THEN [op |-> op, id |-> id, arg |-> arg, pc |-> "failed", pw |-> password,
          items |-> <<>>, error |-> "Master password required", call |-> call]
    ELSE [op |-> op, id |-> id, arg |-> arg, pc |-> "probe", pw |-> password,
          items |-> <<>>, error |-> "", call |-> call]

Settled(p) == p.pc \in {"done", "failed"}
InFlight(tasks) == SelectSeq(tasks, LAMBDA p : ~Settled(p))

\* .catch(error => console.warn(...)): the outcome of the push reaches no one
pushSettled(p, pc, error) == [p EXCEPT !.pc = pc, !.error = error, !.items = <<>>]

\* what JSON.stringify leaves of an ArrayBuffer, which has no enumerable
\* property of its own: {}
EmptyObject == "{}"
\* an attachment in the request body: the bytes are gone, the Date is a string
jsonFileData(file) ==
    [f \in DOMAIN file |->
        CASE f = "data" -> EmptyObject
          [] f = "lastSynced" -> toISOString(file[f])
          [] OTHER -> file[f]]

\* items.map(item => ({...item, id: String(item.id)})), as
\* JSON.stringify({ items }) writes them into the request
itemsForServer(items) ==
    [i \in 1..Len(items) |->
        [f \in DOMAIN items[i] |->
            CASE f = "id" -> String(items[i].id)
              [] f \in {"createdAt", "updatedAt"} -> toISOString(items[i][f])
              [] f = "fileData" /\ items[i].fileData # Undefined ->
                     [k \in DOMAIN items[i].fileData |-> jsonFileData(items[i].fileData[k])]
              [] OTHER -> items[i][f]]]

NoFile == [exists |-> FALSE, pw |-> NoPassword, items |-> <<>>]

\* an optional count that is not set
NoCount == -1
syncResult(success, action, count, error) ==
    [success |-> success, action |-> action, count |-> count, error |-> error]
SyncIdle == [pc |-> "idle", pw |-> NoPassword, loaded |-> <<>>,
             result |-> syncResult(FALSE, "none", NoCount, ""),
             pendingAtFetch |-> {}, disturbed |-> FALSE, before |-> <<>>]
\* what the VaultCrypto runs encrypt and decrypt
Plaintexts == {<<Ch("p")>>, EmptyString, <<Ch("h"), Colon, Ch("x")>>,
               <<Ch("x"), Colon, Ch("y"), Colon, Ch("z")>>}
RawStrings == Plaintexts \cup {<<Colon, Colon, Colon>>}
Full == [name |-> "b", category |-> "passwords", password |-> <<Ch("p")>>,
         username |-> <<Ch("u")>>, description |-> <<Ch("d")>>,
         url |-> <<Ch("h"), Colon, Ch("x")>>, linkUrl |-> EmptyString]
CryptoItems == {Gmail, Link, Full}

CryptoStart(plain, password, seed) ==
    [op |-> "start", plain |-> plain, pw |-> password, seed |-> seed,
     input |-> Undefined, made |-> "none", decPw |-> NoPassword, res |-> Throw(""),
     source |-> Note, item |-> Note, bad |-> {}, out |-> Return(Note)]
CryptoIdle == CryptoStart(EmptyString, NoPassword, 0)

\* no read has been made
NoRead == [op |-> "none", arg |-> [none |-> TRUE], pw |-> NoPassword,
           result |-> Return(<<>>), decrypts |-> 0]
ReadIdle == read = NoRead

\* Storage.getItem of a key that is not there
Null == <<[t |-> "null"]>>
\* a string without a ':' taken as one token
Text(str) == <<[t |-> "text", s |-> str]>>

\* the browser before the first setup
NoAuth == [hash |-> Null, validation |-> Null, session |-> Null, sessionPassword |-> Null,
           login |-> "none", ret |-> [op |-> "none", value |-> FALSE]]
AuthIdle == auth = NoAuth

\* the file ids uuidv4() hands out
FileIds == {"f1", "f2"}
NoFileId == "null"
\* a path at which nothing is stored
Absent == [exists |-> FALSE]
\* no request has been answered
NoResponse == [req |-> "none", status |-> 0, code |-> "", fileId |-> NoFileId,
               body |-> <<>>, cleanup |-> "none"]
NoUpload == [pc |-> "idle"]
\* the POST /api/vault-items requests the server can be handling
Requests == {"r1", "r2"}
NoPost == [pc |-> "idle"]
FileServerStart ==
    [files |-> [id \in FileIds |-> Absent], metadata |-> [id \in FileIds |-> Absent],
     up |-> NoUpload, res |-> NoResponse, generated |-> {},
     uploaded |-> [id \in FileIds |-> <<>>], owner |-> [id \in FileIds |-> NoPassword],
     altered |-> {},
     posts |-> [r \in Requests |-> NoPost], backups |-> {}]
FileServerIdle == fileServer = FileServerStart

\* nothing goes on outside the vault's table and its synchronisation
\* no uploadFileToServer call has been made
NoUploadCall == [pc |-> "idle", itemId |-> 0, fileIndex |-> 0, item |-> <<>>,
                 fileId |-> NoFileId, thrown |-> "", original |-> "", before |-> <<>>]
UploadIdle == upload = NoUploadCall

\* no deleteItem call yet
NoDeletion == [pc |-> "idle", id |-> 0, item |-> <<>>, pw |-> NoPassword, remote |-> "none"]
\* no downloadFileFromServer call yet
NoDownload == [pc |-> "idle"]
\* no retryOperation call yet
NoRetry == [pc |-> "idle", maxRetries |-> 0, delay |-> 0, attempt |-> 0,
            outcomes |-> <<>>, waits |-> <<>>]
ClientIdle == deletion = NoDeletion /\ download = NoDownload /\ retry = NoRetry

Elsewhere == ReadIdle /\ AuthIdle /\ FileServerIdle /\ UploadIdle /\ ClientIdle

Init ==
    /\ masterPassword = NoPassword
    /\ vaultItems = <<>>
    /\ nextId = 1
    /\ now = 0
    /\ rng = 0
    /\ serverUp \in BOOLEAN
    /\ serverFile = NoFile
    /\ pushes = <<>>
    /\ sync = SyncIdle
    /\ calls = 0
    /\ crypto = CryptoIdle
    /\ Elsewhere

\* a local write while autoSync is between its clear and its inserts
Disturb(s) == IF s.pc = "insert" THEN [s EXCEPT !.disturbed = TRUE] ELSE s

setMasterPassword(password) ==
    /\ masterPassword' = password
    /\ UNCHANGED <<vaultItems, nextId, now, rng, serverUp, serverFile, pushes, sync, calls, crypto, others>>

clearMasterPassword ==
    /\ masterPassword # NoPassword
    /\ masterPassword' = NoPassword
    /\ UNCHANGED <<vaultItems, nextId, now, rng, serverUp, serverFile, pushes, sync, calls, crypto, others>>

addItem(item) ==
    /\ calls < MaxCalls
    /\ calls' = calls + 1
    /\ vaultItems' = Append(vaultItems, addItemRow(item, masterPassword, rng, nextId, now))
    /\ nextId' = nextId + 1
    /\ rng' = rngAfter(item, masterPassword, rng)
    /\ pushes' = Append(InFlight(pushes),
                        syncVaultItemsToServerCall("add", nextId, item, masterPassword,
                                                   callReturned(nextId)))
    /\ sync' = Disturb(sync)
    /\ UNCHANGED <<masterPassword, now, serverUp, serverFile, crypto, others>>

updateItem(id, updates) ==
    /\ calls < MaxCalls
    /\ calls' = calls + 1
    /\ vaultItems' = [i \in 1..Len(vaultItems) |->
                         IF vaultItems[i].id = id
                         THEN updateItemRow(vaultItems[i], updates, masterPassword, rng, now)
                         ELSE vaultItems[i]]
    /\ rng' = rngAfter(updates, masterPassword, rng)
    /\ pushes' = Append(InFlight(pushes),
                        syncVaultItemsToServerCall("update", id, updates, masterPassword,
                                                   callReturned(Void)))
    /\ sync' = Disturb(sync)
    /\ UNCHANGED <<masterPassword, nextId, now, serverUp, serverFile, crypto, others>>

Tick ==
    /\ now < MaxClock
    /\ now' = now + 1
    /\ UNCHANGED <<masterPassword, vaultItems, nextId, rng, serverUp, serverFile, pushes, sync, calls, crypto, others>>

ServerUpDown ==
    /\ serverUp' = ~serverUp
    /\ UNCHANGED <<masterPassword, vaultItems, nextId, now, rng, serverFile, pushes, sync, calls, crypto, others>>

(***************************************************************************)
(* The file server: /api/vault-items                                       *)
(***************************************************************************)
\* GET /api/vault-items, as FileServerAPI.getVaultItems sees it
getVaultItems(file, password) ==
    IF ~file.exists THEN Return(<<>>)
    ELSE IF file.pw # password THEN Throw("Failed to get vault items")
    ELSE Return(SelectSeq(file.items, LAMBDA item : "id" \in DOMAIN item))

\* a POST that keeps a stored item in place of a sent one with the same id
postVaultItemsKeepingStored(file, items, password) ==
    LET stored(item) == {i \in 1..Len(file.items) : file.items[i].id = item.id}
    IN  [exists |-> TRUE, pw |-> password,
         items |-> [n \in 1..Len(items) |->
                       IF file.exists /\ stored(items[n]) # {}
                       THEN file.items[CHOOSE i \in stored(items[n]) : TRUE]
                       ELSE items[n]]]

\* POST /api/vault-items: the snapshot is overwritten
postVaultItems(file, items, password) ==
    [exists |-> TRUE, pw |-> password, items |-> items]

\* PUT /api/vault-items/:itemId: update the item with that id or append it
putVaultItem(file, itemId, item, password) ==
    LET items == IF file.exists THEN file.items ELSE <<>>
        found == \E i \in 1..Len(items) : items[i].id = itemId
        index == CHOOSE i \in 1..Len(items) : items[i].id = itemId /\
                     \A j \in 1..(i - 1) : items[j].id # itemId
        merged == [f \in ItemFields |->
                      CASE f = "id" -> itemId
                        [] f \in DOMAIN item -> item[f]
                        [] OTHER -> items[index][f]]
        added == [f \in ItemFields |->
                      CASE f = "id" -> itemId
                        [] f \in DOMAIN item -> item[f]
                        [] f = "syncStatus" -> NoStatus
                        [] OTHER -> Undefined]
    IN  [exists |-> TRUE, pw |-> password,
         items |-> IF found THEN [items EXCEPT ![index] = merged]
                   ELSE Append(items, added)]

\* what another client of the server PUTs
PutInputs == {[name |-> "a", category |-> "notes", createdAt |-> toISOString(0),
               updatedAt |-> toISOString(0)]}

\* a request from another client of the same vault
PutVaultItem(itemId, item) ==
    /\ serverUp
    /\ masterPassword # NoPassword
    /\ ~serverFile.exists \/ serverFile.pw = masterPassword
    /\ Len(putVaultItem(serverFile, itemId, item, masterPassword).items) <= MaxSnapshot
    /\ serverFile' = putVaultItem(serverFile, itemId, item, masterPassword)
    /\ UNCHANGED <<masterPassword, vaultItems, nextId, now, rng, serverUp, pushes, sync, calls, crypto, others>>

(***************************************************************************)
(* syncVaultItemsToServer, step by step                                    *)
(***************************************************************************)
\* await fileServerAPI.isAvailable()
PushProbe(i) ==
    /\ pushes[i].pc = "probe"
    /\ pushes' = [pushes EXCEPT ![i] =
                     IF serverUp THEN [@ EXCEPT !.pc = "read"]
                     ELSE pushSettled(@, "failed", "Server not available")]
    /\ UNCHANGED <<masterPassword, vaultItems, nextId, now, rng, serverUp, serverFile, sync, calls, crypto, others>>

\* await this.getAllItems(), and the request is sent
PushRead(i) ==
    /\ pushes[i].pc = "read"
    /\ LET all == getAllItems(vaultItems, masterPassword)
       IN  /\ vaultItems' = all.table
           /\ pushes' = [pushes EXCEPT ![i] =
                            [@ EXCEPT !.pc = "save", !.items = itemsForServer(all.items)]]
    /\ UNCHANGED <<masterPassword, nextId, now, rng, serverUp, serverFile, sync, calls, crypto, others>>

\* await fileServerAPI.saveVaultItems(itemsForServer): the server saves
PushSaved(i) ==
    /\ pushes[i].pc = "save"
    /\ serverUp
    /\ serverFile' = postVaultItems(serverFile, pushes[i].items, pushes[i].pw)
    /\ pushes' = [pushes EXCEPT ![i] = pushSettled(@, "done", "")]
    /\ UNCHANGED <<masterPassword, vaultItems, nextId, now, rng, serverUp, sync, calls, crypto, others>>

\* ... or the request fails (no connection, or the server answers 500)
PushSaveFailed(i) ==
    /\ pushes[i].pc = "save"
    /\ pushes' = [pushes EXCEPT ![i] = pushSettled(@, "failed", "Failed to save vault items")]
    /\ UNCHANGED <<masterPassword, vaultItems, nextId, now, rng, serverUp, serverFile, sync, calls, crypto, others>>

(***************************************************************************)
(* autoSyncVaultItems, step by step                                        *)
(***************************************************************************)
autoSyncReturns(s, result) == [s EXCEPT !.pc = "done", !.result = result]

\* the call, up to its first await
AutoSync ==
    /\ sync.pc \in {"idle", "done"}
    /\ calls < MaxCalls
    /\ calls' = calls + 1
    /\ sync' = IF masterPassword = NoPassword
               THEN autoSyncReturns([SyncIdle EXCEPT !.before = vaultItems],
                        syncResult(FALSE, "none", NoCount, "Master password required"))
               ELSE [SyncIdle EXCEPT !.pc = "probe", !.pw = masterPassword,
                                     !.before = vaultItems]
    /\ UNCHANGED <<masterPassword, vaultItems, nextId, now, rng, serverUp, serverFile, pushes, crypto, others>>

\* autoSyncVaultItems going on to load whatever the probe says
autoSyncProbedUnchecked(s, available, password) ==
    [s EXCEPT !.pc = "loadProbe", !.pw = password]

\* the probe of autoSyncVaultItems answers; when the server is there
\* syncVaultItemsFromServer and loadVaultItemsFromServer start
autoSyncProbed(s, available, password) ==
    IF ~available
    THEN autoSyncReturns(s, syncResult(TRUE, "none", NoCount,
                                       "Server not available, using local data"))
    ELSE IF password = NoPassword
    THEN autoSyncReturns(s, syncResult(FALSE, "loaded", 0, "Master password required"))
    ELSE [s EXCEPT !.pc = "loadProbe", !.pw = password]

AutoSyncProbe ==
    /\ sync.pc = "probe"
    /\ sync' = autoSyncProbed(sync, serverUp, masterPassword)
    /\ UNCHANGED <<masterPassword, vaultItems, nextId, now, rng, serverUp, serverFile, pushes, calls, crypto, others>>

\* the probe of loadVaultItemsFromServer answers
AutoSyncLoadProbe ==
    /\ sync.pc = "loadProbe"
    /\ sync' = IF serverUp THEN [sync EXCEPT !.pc = "get"]
               ELSE autoSyncReturns(sync, syncResult(FALSE, "loaded", 0, "Server not available"))
    /\ UNCHANGED <<masterPassword, vaultItems, nextId, now, rng, serverUp, serverFile, pushes, calls, crypto, others>>

\* a clear() that leaves the rows in place
clearNothing(table) == table

\* db.vaultItems.clear()
clearTable(table) == <<>>

\* the pushes whose snapshot the server has not saved
Unsaved(tasks) == {tasks[i].id : i \in {k \in 1..Len(tasks) : ~Settled(tasks[k])}}

\* GET /api/vault-items answers; on success the table is cleared
AutoSyncGet ==
    /\ sync.pc = "get"
    /\ LET response == IF serverUp THEN getVaultItems(serverFile, sync.pw)
                       ELSE Throw("Failed to fetch")
       IN  IF response.ok
           THEN /\ sync' = [sync EXCEPT !.pc = "insert", !.loaded = response.val,
                                        !.pendingAtFetch = Unsaved(pushes)]
                /\ vaultItems' = clearTable(vaultItems)
           ELSE /\ sync' = autoSyncReturns(sync, syncResult(FALSE, "loaded", 0, response.err))
                /\ UNCHANGED vaultItems
    /\ UNCHANGED <<masterPassword, nextId, now, rng, serverUp, serverFile, pushes, calls, crypto, others>>

\* an import that stores each item under the id the server sent
importRowsKeepingIds(items, firstId) ==
    [k \in 1..Len(items) |->
        [items[k] EXCEPT !.id = @.digits, !.createdAt = newDate(@),
                         !.updatedAt = newDate(@)]]

\* the rows the import adds: the server's id is dropped, '++id' gives new ones
importRows(items, firstId) ==
    [k \in 1..Len(items) |->
        [items[k] EXCEPT !.id = firstId + k - 1, !.createdAt = newDate(@),
                         !.updatedAt = newDate(@)]]

\* after the 100 ms wait: the inserts, then removeDuplicateItems
AutoSyncInsert ==
    /\ sync.pc = "insert"
    /\ vaultItems' = removeDuplicateItems(vaultItems \o importRows(sync.loaded, nextId)).table
    /\ nextId' = nextId + Len(sync.loaded)
    /\ sync' = autoSyncReturns(sync, syncResult(TRUE, "loaded", Len(sync.loaded), ""))
    /\ UNCHANGED <<masterPassword, now, rng, serverUp, serverFile, pushes, calls, crypto, others>>

\* ... or the transaction of the inserts fails: it is rolled back, and the
\* clear() that ran before it is not part of it
ErrTransaction == "Transaction failed"
AutoSyncInsertThrows ==
    /\ sync.pc = "insert"
    /\ sync' = autoSyncReturns(sync, syncResult(FALSE, "loaded", 0, ErrTransaction))
    /\ UNCHANGED <<masterPassword, vaultItems, nextId, now, rng, serverUp, serverFile, pushes, calls, crypto, others>>

\* the session of the synchronisation runs: one password, one kind of item
SyncPasswords == {"w1"}
SyncAddInputs == {Note}

Next ==
    \/ \E w \in SyncPasswords : setMasterPassword(w)
    \/ \E item \in SyncAddInputs : addItem(item)
    \/ Tick
    \/ ServerUpDown
    \/ \E id \in {String(1), String(2)}, item \in PutInputs : PutVaultItem(id, item)
    \/ \E i \in 1..Len(pushes) : PushProbe(i)
    \/ \E i \in 1..Len(pushes) : PushRead(i)
    \/ \E i \in 1..Len(pushes) : PushSaved(i)
    \/ \E i \in 1..Len(pushes) : PushSaveFailed(i)
    \/ AutoSync
    \/ AutoSyncProbe
    \/ AutoSyncLoadProbe
    \/ AutoSyncGet
    \/ AutoSyncInsert

Spec == Init /\ [][Next]_vars

(***************************************************************************)
(* A session that stays unlocked and stores items with sensitive fields:   *)
(* its pushes and autoSync                                                 *)
(***************************************************************************)
UnlockedInit ==
    /\ masterPassword = "w1"
    /\ vaultItems = <<>>
    /\ nextId = 1
    /\ now = 0
    /\ rng = 0
    /\ serverUp \in BOOLEAN
    /\ serverFile = NoFile
    /\ pushes = <<>>
    /\ sync = SyncIdle
    /\ calls = 0
    /\ crypto = CryptoIdle
    /\ Elsewhere

UnlockedNext ==
    \/ addItem(Gmail)
    \/ ServerUpDown
    \/ \E i \in 1..Len(pushes) : PushProbe(i)
    \/ \E i \in 1..Len(pushes) : PushRead(i)
    \/ \E i \in 1..Len(pushes) : PushSaved(i)
    \/ \E i \in 1..Len(pushes) : PushSaveFailed(i)
    \/ AutoSync
    \/ AutoSyncProbe
    \/ AutoSyncLoadProbe
    \/ AutoSyncGet
    \/ AutoSyncInsert

UnlockedSpec == UnlockedInit /\ [][UnlockedNext]_vars

(***************************************************************************)
(* The background pushes of a session's writes, without autoSync: the      *)
(* vault locked and unlocked, the server coming and going                  *)
(***************************************************************************)
PushUpdateInputs == {[syncStatus |-> "error"]}

PushNext ==
    \/ \E w \in SyncPasswords : setMasterPassword(w)
    \/ clearMasterPassword
    \/ \E item \in SyncAddInputs : addItem(item)
    \/ \E id \in 1..(nextId - 1), updates \in PushUpdateInputs : updateItem(id, updates)
    \/ Tick
    \/ ServerUpDown
    \/ \E i \in 1..Len(pushes) : PushProbe(i)
    \/ \E i \in 1..Len(pushes) : PushRead(i)
    \/ \E i \in 1..Len(pushes) : PushSaved(i)
    \/ \E i \in 1..Len(pushes) : PushSaveFailed(i)

PushSpec == Init /\ [][PushNext]_vars

(***************************************************************************)
(* What addItem and updateItem store: every kind of item, both passwords,  *)
(* the vault locked and unlocked, the server out of reach                  *)
(***************************************************************************)
StoreInit ==
    /\ masterPassword = NoPassword
    /\ vaultItems = <<>>
    /\ nextId = 1
    /\ now = 0
    /\ rng \in Salts
    /\ serverUp = FALSE
    /\ serverFile = NoFile
    /\ pushes = <<>>
    /\ sync = SyncIdle
    /\ calls = 0
    /\ crypto = CryptoIdle
    /\ Elsewhere

StoreNext ==
    \/ \E w \in Passwords : setMasterPassword(w)
    \/ clearMasterPassword
    \/ \E item \in AddInputs : addItem(item)
    \/ \E id \in 1..(nextId - 1), updates \in UpdateInputs : updateItem(id, updates)
    \/ \E i \in 1..Len(pushes) : PushProbe(i)

StoreSpec == StoreInit /\ [][StoreNext]_vars

\* a table of two items, one stored while unlocked and one while locked, and
\* updateItem called with their ids and with an id the table does not hold
UpdateInit ==
    /\ masterPassword \in {NoPassword, "w1"}
    /\ vaultItems = <<addItemRow(Gmail, "w1", 0, 1, 0), addItemRow(Note, NoPassword, 0, 2, 0)>>
    /\ nextId = 3
    /\ now = 0
    /\ rng = rngAfter(Gmail, "w1", 0)
    /\ serverUp = FALSE
    /\ serverFile = NoFile
    /\ pushes = <<>>
    /\ sync = SyncIdle
    /\ calls = 0
    /\ crypto = CryptoIdle
    /\ Elsewhere

UpdateNext ==
    \/ \E w \in SyncPasswords : setMasterPassword(w)
    \/ clearMasterPassword
    \/ \E id \in 1..nextId, updates \in UpdateInputs : updateItem(id, updates)
    \/ \E i \in 1..Len(pushes) : PushProbe(i)
    \/ Tick

UpdateSpec == UpdateInit /\ [][UpdateNext]_vars

(***************************************************************************)
(* VaultCrypto on its own: one encrypt or encryptVaultItem, the value       *)
(* possibly altered in storage, then one decrypt or decryptVaultItem        *)
(***************************************************************************)
CryptoInit ==
    /\ masterPassword = NoPassword
    /\ vaultItems = <<>>
    /\ nextId = 1
    /\ now = 0
    /\ rng = 0
    /\ serverUp = FALSE
    /\ serverFile = NoFile
    /\ pushes = <<>>
    /\ sync = SyncIdle
    /\ calls = 0
    /\ crypto \in {CryptoStart(p, w, r) : p \in Plaintexts, w \in Passwords, r \in Salts}
    /\ Elsewhere

rest == <<masterPassword, vaultItems, nextId, now, rng, serverUp, serverFile,
          pushes, sync, calls, others>>

anIV == CHOOSE n \in IVs : TRUE

CryptoEncrypt ==
    /\ crypto.op = "start"
    /\ crypto' = [crypto EXCEPT !.op = "ready", !.made = "encrypt",
                     !.input = encrypt(crypto.plain, crypto.pw, crypto.seed, anIV)]
    /\ UNCHANGED rest

\* a string that encrypt did not make
CryptoRaw(str) ==
    /\ crypto.op = "start"
    /\ crypto' = [crypto EXCEPT !.op = "ready", !.made = "raw", !.input = str]
    /\ UNCHANGED rest

\* envelope with its last part cut off
truncated(envelope) ==
    LET parts == split(envelope) IN parts[1] \o <<Colon>> \o parts[2]
\* envelope with bytes of its ciphertext changed
flipped(envelope) ==
    [envelope EXCEPT ![Len(envelope)] = [@ EXCEPT !.intact = FALSE]]
altered(envelope, how) ==
    IF how = "truncated" THEN truncated(envelope) ELSE flipped(envelope)

CryptoAlter(how) ==
    /\ crypto.op = "ready"
    /\ crypto.made = "encrypt"
    /\ crypto' = [crypto EXCEPT !.made = how, !.input = altered(crypto.input, how)]
    /\ UNCHANGED rest

CryptoDecrypt(password) ==
    /\ crypto.op = "ready"
    /\ crypto' = [crypto EXCEPT !.op = "decrypted", !.decPw = password,
                     !.res = decrypt(crypto.input, password)]
    /\ UNCHANGED rest

CryptoEncryptItem(item) ==
    /\ crypto.op = "start"
    /\ crypto' = [crypto EXCEPT !.op = "itemReady", !.source = item,
                     !.item = encryptVaultItem(item, crypto.pw, crypto.seed)]
    /\ UNCHANGED rest

\* a stored field is altered, or replaced by an envelope made under
\* another password
CryptoAlterField(f, how) ==
    /\ crypto.op = "itemReady"
    /\ Cardinality(crypto.bad) < 2
    /\ f \in FieldsToEncrypt(crypto.source) \ crypto.bad
    /\ crypto' = [crypto EXCEPT !.bad = @ \cup {f},
                     !.item[f] = IF how = "foreign"
                                 THEN encrypt(crypto.source[f],
                                              CHOOSE w \in Passwords : w # crypto.pw,
                                              crypto.seed, anIV)
                                 ELSE altered(@, how)]
    /\ UNCHANGED rest

CryptoDecryptItem(password) ==
    /\ crypto.op = "itemReady"
    /\ crypto' = [crypto EXCEPT !.op = "itemDecrypted", !.decPw = password,
                     !.out = decryptVaultItem(crypto.item, password)]
    /\ UNCHANGED rest

CryptoNext ==
    \/ CryptoEncrypt
    \/ \E str \in RawStrings : CryptoRaw(str)
    \/ \E how \in {"truncated", "flipped"} : CryptoAlter(how)
    \/ \E w \in Passwords : CryptoDecrypt(w)
    \/ \E item \in CryptoItems : CryptoEncryptItem(item)
    \/ \E f \in sensitiveFields, how \in {"truncated", "flipped", "foreign"} :
           CryptoAlterField(f, how)
    \/ \E w \in Passwords : CryptoDecryptItem(w)

CryptoSpec == CryptoInit /\ [][CryptoNext]_vars

(***************************************************************************)
(* The reads of the local table: with the vault unlocked, and after        *)
(* clearMasterPassword                                                      *)
(***************************************************************************)
returned(op, arg, password, got) ==
    [op |-> op, arg |-> arg, pw |-> password, result |-> Return(got.items),
     decrypts |-> got.decrypts]

GetAllItems ==
    /\ LET all == getAllItems(vaultItems, masterPassword)
       IN  /\ vaultItems' = all.table
           /\ read' = returned("getAllItems", [none |-> TRUE], masterPassword, all)
    /\ UNCHANGED <<masterPassword, nextId, now, rng, serverUp, serverFile, pushes, sync,
                   calls, crypto, othersButRead>>

GetItemById(id) ==
    /\ read' = returned("getItemById", [id |-> id], masterPassword,
                        getItemById(vaultItems, id, masterPassword))
    /\ UNCHANGED <<masterPassword, vaultItems, nextId, now, rng, serverUp, serverFile,
                   pushes, sync, calls, crypto, othersButRead>>

GetItemsByCategory(category) ==
    /\ read' = returned("getItemsByCategory", [category |-> category], masterPassword,
                        getItemsByCategory(vaultItems, category, masterPassword))
    /\ UNCHANGED <<masterPassword, vaultItems, nextId, now, rng, serverUp, serverFile,
                   pushes, sync, calls, crypto, othersButRead>>

SearchItems(query) ==
    /\ LET found == searchItems(vaultItems, query, masterPassword)
       IN  /\ vaultItems' = found.table
           /\ read' = returned("searchItems", [query |-> query], masterPassword, found)
    /\ UNCHANGED <<masterPassword, nextId, now, rng, serverUp, serverFile, pushes, sync,
                   calls, crypto, othersButRead>>

Categories == {"passwords", "notes"}
Queries == {<<Ch("A")>>, <<Ch("u")>>}

ReadInit ==
    /\ masterPassword = NoPassword
    /\ vaultItems = <<>>
    /\ nextId = 1
    /\ now = 0
    /\ rng = 0
    /\ serverUp = FALSE
    /\ serverFile = NoFile
    /\ pushes = <<>>
    /\ sync = SyncIdle
    /\ calls = 0
    /\ crypto = CryptoIdle
    /\ read = NoRead
    /\ AuthIdle
    /\ FileServerIdle
    /\ UploadIdle
    /\ ClientIdle

ReadNext ==
    \/ \E w \in SyncPasswords : setMasterPassword(w)
    \/ clearMasterPassword
    \/ \E item \in AddInputs : addItem(item)
    \/ GetAllItems
    \/ \E id \in 1..(nextId - 1) : GetItemById(id)
    \/ \E category \in Categories : GetItemsByCategory(category)
    \/ \E query \in Queries : SearchItems(query)

ReadSpec == ReadInit /\ [][ReadNext]_vars

(***************************************************************************)
(* removeDuplicateItems on any table                                        *)
(***************************************************************************)
\* the tables of up to MaxRows rows, in primary-key order
Tables ==
    UNION {{[i \in 1..n |-> addItemRow(f[i][1], NoPassword, 0, i, f[i][2])] :
               f \in [1..n -> AddInputs \X (0..MaxClock)]} : n \in 0..MaxRows}

DedupeInit ==
    /\ masterPassword = NoPassword
    /\ vaultItems \in Tables
    /\ nextId = Len(vaultItems) + 1
    /\ now = 0
    /\ rng = 0
    /\ serverUp = FALSE
    /\ serverFile = NoFile
    /\ pushes = <<>>
    /\ sync = SyncIdle
    /\ calls = 0
    /\ crypto = CryptoIdle
    /\ read = NoRead
    /\ AuthIdle
    /\ FileServerIdle
    /\ UploadIdle
    /\ ClientIdle

RemoveDuplicateItems ==
    /\ calls < MaxCalls
    /\ calls' = calls + 1
    /\ LET cleanupResult == removeDuplicateItems(vaultItems)
       IN  /\ vaultItems' = cleanupResult.table
           /\ read' = [op |-> "removeDuplicateItems", arg |-> [none |-> TRUE],
                       pw |-> masterPassword,
                       result |-> Return(<<[removed |-> cleanupResult.removed,
                                            remaining |-> cleanupResult.remaining]>>),
                       decrypts |-> 0]
    /\ UNCHANGED <<masterPassword, nextId, now, rng, serverUp, serverFile, pushes, sync,
                   crypto, othersButRead>>

DedupeNext == RemoveDuplicateItems

DedupeSpec == DedupeInit /\ [][DedupeNext]_vars

(***************************************************************************)
(* AuthService: setup, login, logout, session restore                      *)
(***************************************************************************)
\* CryptoJS.SHA256(password).toString()
hashMasterPassword(password) == <<[t |-> "sha256", of |-> password]>>

\* JSON.stringify({timestamp, isAuthenticated: true})
sessionData(timestamp) == <<[t |-> "json", timestamp |-> timestamp, isAuthenticated |-> TRUE]>>
\* 'session_key_' + sessionData.timestamp
sessionKey(timestamp) == "session_key_" \o ToString(timestamp)

\* 8 hours, in ticks of the clock
maxAge == 1

\* validateMasterPassword(password, testData) with test data present
validateMasterPassword(password, testData) == decrypt(testData, password).ok

verifyMasterPassword(a, password) ==
    IF a.hash = Null THEN FALSE
    ELSE IF hashMasterPassword(password) # a.hash THEN FALSE
    ELSE IF a.validation # Null THEN validateMasterPassword(password, a.validation)
    ELSE TRUE

authReturns(a, op, value) == [a EXCEPT !.ret = [op |-> op, value |-> value]]

\* AuthService.setMasterPassword: the first setup
AuthSetMasterPassword(password) ==
    /\ IF auth.hash # Null
       THEN /\ auth' = authReturns(auth, "setMasterPassword", FALSE)
            /\ UNCHANGED rng
       ELSE /\ auth' = authReturns([auth EXCEPT
                           !.hash = hashMasterPassword(password),
                           !.validation = encrypt(Text("validation_test"), password,
                                                  randomBytes(rng, 0), anIV)],
                           "setMasterPassword", TRUE)
            /\ rng' = randomBytes(rng, 1)
    /\ UNCHANGED <<masterPassword, vaultItems, nextId, now, serverUp, serverFile, pushes,
                   sync, calls, crypto, othersButAuth>>

\* what logout removes from sessionStorage
loggedOut(a) == [a EXCEPT !.session = Null, !.sessionPassword = Null]

\* AuthService.login, up to its await of autoSyncVaultItems
Login(password) ==
    /\ auth.login = "none"
    /\ sync.pc \in {"idle", "done"}
    /\ IF verifyMasterPassword(auth, password)
       THEN /\ auth' = [auth EXCEPT
                           !.session = sessionData(now),
                           !.sessionPassword = encrypt(Text(password), sessionKey(now),
                                                       randomBytes(rng, 0), anIV),
                           !.login = "syncing"]
            /\ rng' = randomBytes(rng, 1)
            /\ masterPassword' = password
            /\ sync' = [SyncIdle EXCEPT !.pc = "probe", !.pw = password,
                                        !.before = vaultItems]
       ELSE /\ auth' = authReturns(auth, "login", FALSE)
            /\ UNCHANGED <<rng, masterPassword, sync>>
    /\ UNCHANGED <<vaultItems, nextId, now, serverUp, serverFile, pushes, calls, crypto, othersButAuth>>

\* autoSyncVaultItems has settled: login returns true whatever it returned
LoginReturns ==
    /\ auth.login = "syncing"
    /\ sync.pc = "done"
    /\ auth' = authReturns([auth EXCEPT !.login = "none"], "login", TRUE)
    /\ UNCHANGED <<masterPassword, vaultItems, nextId, now, rng, serverUp, serverFile,
                   pushes, sync, calls, crypto, othersButAuth>>

Logout ==
    /\ auth' = authReturns(loggedOut(auth), "logout", TRUE)
    /\ masterPassword' = NoPassword
    /\ UNCHANGED <<vaultItems, nextId, now, rng, serverUp, serverFile, pushes, sync, calls,
                   crypto, othersButAuth>>

\* isAuthenticated: the session is there and not older than maxAge
isExpired(a, t) == t - a.session[1].timestamp > maxAge
isAuthenticated(a, t) == a.session # Null /\ ~isExpired(a, t)

RestoreMasterPasswordFromSession ==
    /\ IF auth.sessionPassword = Null \/ auth.session = Null
       THEN /\ auth' = authReturns(auth, "restore", FALSE)
            /\ UNCHANGED masterPassword
       ELSE IF isExpired(auth, now)
       THEN /\ auth' = authReturns(loggedOut(auth), "restore", FALSE)
            /\ masterPassword' = NoPassword
       ELSE LET decryptedPassword == decrypt(auth.sessionPassword,
                                             sessionKey(auth.session[1].timestamp))
            IN  IF decryptedPassword.ok /\ decryptedPassword.val[1].t = "text"
                   /\ verifyMasterPassword(auth, decryptedPassword.val[1].s)
                THEN /\ auth' = authReturns(auth, "restore", TRUE)
                     /\ masterPassword' = decryptedPassword.val[1].s
                ELSE /\ auth' = authReturns(auth, "restore", FALSE)
                     /\ UNCHANGED masterPassword
    /\ UNCHANGED <<vaultItems, nextId, now, rng, serverUp, serverFile, pushes, sync, calls,
                   crypto, othersButAuth>>

\* a page reload: what lives only in memory is gone
Reload ==
    /\ auth.login = "none"
    /\ masterPassword # NoPassword
    /\ masterPassword' = NoPassword
    /\ UNCHANGED <<vaultItems, nextId, now, rng, serverUp, serverFile, pushes, sync, calls,
                   crypto, others>>

AuthInit ==
    /\ masterPassword = NoPassword
    /\ vaultItems = <<>>
    /\ nextId = 1
    /\ now = 0
    /\ rng \in Salts
    /\ serverUp \in BOOLEAN
    /\ serverFile = NoFile
    /\ pushes = <<>>
    /\ sync = SyncIdle
    /\ calls = 0
    /\ crypto = CryptoIdle
    /\ read = NoRead
    /\ auth = NoAuth
    /\ FileServerIdle
    /\ UploadIdle
    /\ ClientIdle

AuthNext ==
    \/ \E w \in Passwords : AuthSetMasterPassword(w)
    \/ \E w \in Passwords : Login(w)
    \/ LoginReturns
    \/ Logout
    \/ RestoreMasterPasswordFromSession
    \/ Reload
    \/ Tick
    \/ ServerUpDown
    \/ AutoSyncProbe
    \/ AutoSyncLoadProbe
    \/ AutoSyncGet
    \/ AutoSyncInsert

AuthSpec == AuthInit /\ [][AuthNext]_vars

\* AuthService.changeMasterPassword: the hash and the validation data are
\* replaced and the session is ended; the stored items are not touched
ChangeMasterPassword(currentPassword, newPassword) ==
    /\ auth.login = "none"
    /\ IF verifyMasterPassword(auth, currentPassword)
       THEN /\ auth' = authReturns(loggedOut([auth EXCEPT
                           !.hash = hashMasterPassword(newPassword),
                           !.validation = encrypt(Text("validation_test"), newPassword,
                                                  randomBytes(rng, 0), anIV)]),
                           "changeMasterPassword", TRUE)
            /\ rng' = randomBytes(rng, 1)
            /\ masterPassword' = NoPassword
       ELSE /\ auth' = authReturns(auth, "changeMasterPassword", FALSE)
            /\ UNCHANGED <<rng, masterPassword>>
    /\ UNCHANGED <<vaultItems, nextId, now, serverUp, serverFile, pushes, sync, calls,
                   crypto, othersButAuth>>

\* a vault set up and unlocked with "w1" that holds one item stored under
\* it; the server has saved the item's push, or has never been reached
ChangeInit ==
    /\ masterPassword = "w1"
    /\ vaultItems = <<addItemRow(Gmail, "w1", 0, 1, 0)>>
    /\ nextId = 2
    /\ now = 0
    /\ rng = rngAfter(Gmail, "w1", 0)
    /\ serverUp \in BOOLEAN
    /\ serverFile \in {NoFile,
                       postVaultItems(NoFile,
                                      itemsForServer(getAllItems(vaultItems, "w1").items),
                                      "w1")}
    /\ pushes = <<>>
    /\ sync = SyncIdle
    /\ calls = 0
    /\ crypto = CryptoIdle
    /\ read = NoRead
    /\ auth = authReturns([NoAuth EXCEPT
                   !.hash = hashMasterPassword("w1"),
                   !.validation = encrypt(Text("validation_test"), "w1", 0, anIV),
                   !.session = sessionData(0),
                   !.sessionPassword = encrypt(Text("w1"), sessionKey(0), 0, anIV)],
                   "login", TRUE)
    /\ FileServerIdle
    /\ UploadIdle
    /\ ClientIdle

\* a login while the ids the imports have used up are within the bound
LoginWithinBound(password) == nextId <= MaxRows /\ Login(password)

ChangeNext ==
    \/ \E currentPassword, newPassword \in Passwords :
          ChangeMasterPassword(currentPassword, newPassword)
    \/ \E w \in Passwords : LoginWithinBound(w)
    \/ LoginReturns
    \/ Logout
    \/ ServerUpDown
    \/ AutoSyncProbe
    \/ AutoSyncLoadProbe
    \/ AutoSyncGet
    \/ AutoSyncInsert

ChangeSpec == ChangeInit /\ [][ChangeNext]_vars

(***************************************************************************)
(* The file server: FileEncryption, POST /api/files/upload and             *)
(* GET /api/files/:fileId                                                   *)
(***************************************************************************)
\* FileEncryption.encrypt: {encrypted, salt, iv}, as fs.writeJson stores it
FileEncryptionEncrypt(data, password, saltBytes) ==
    [exists |-> TRUE, json |-> TRUE,
     encrypted |-> AESEncrypt(data, deriveKey(password, generateSalt(saltBytes))),
     salt |-> generateSalt(saltBytes), iv |-> generateIV(anIV)]

\* FileEncryption.decrypt: the decoded string, whatever it is, or the
\* 'Malformed UTF-8 data' error
FileEncryptionDecrypt(encryptedData, password) ==
    AESDecryptUtf8(encryptedData.encrypted, deriveKey(password, encryptedData.salt))

\* the messages of the errors the download can meet
ErrJson == "Unexpected token in JSON"
\* error.message.includes('decrypt')
includesDecrypt(message) == message \notin {ErrJson, ErrMalformedUtf8}

\* crypto.SHA256(fileDataBase64).toString()
SHA256(str) == [sha256 |-> str]
\* JSON.stringify(metadata)
stringify(value) == <<[t |-> "json", value |-> value]>>
\* JSON.parse
parse(str) ==
    IF Len(str) = 1 /\ str[1].t = "json" THEN Return(str[1].value)
    ELSE Throw(ErrJson)
\* fs.readJson of a stored artifact
readJson(artifact) ==
    IF artifact.json THEN Return(artifact) ELSE Throw(ErrJson)
\* what a write that failed half-way leaves behind
Partial == [exists |-> TRUE, json |-> FALSE]

response(req, status, code, fileId, body, cleanup) ==
    [req |-> req, status |-> status, code |-> code, fileId |-> fileId, body |-> body,
     cleanup |-> cleanup]

\* what clients upload: base64 text of the file's bytes
Uploads == {Text("d1"), Text("d2")}

\* the request arrives with a file: uuidv4(), an id never made before, and
\* the locals of the handler
UploadReceive(data, password) ==
    /\ fileServer.up.pc = "idle"
    /\ \E fileId \in FileIds \ fileServer.generated :
          fileServer' = [fileServer EXCEPT
              !.generated = @ \cup {fileId},
              !.up = [pc |-> "encrypt", fileId |-> fileId, data |-> data, pw |-> password,
                      filePath |-> FALSE, metadataPath |-> FALSE]]
    /\ UNCHANGED <<masterPassword, vaultItems, nextId, now, rng, serverUp, serverFile,
                   pushes, sync, calls, crypto, othersButFileServer>>

\* the two FileEncryption.encrypt calls: they return, or one throws
UploadEncrypt(ok, saltBytes) ==
    /\ fileServer.up.pc = "encrypt"
    /\ LET up == fileServer.up
           metadata == [id |-> up.fileId, checksum |-> SHA256(up.data)]
       IN  fileServer' = [fileServer EXCEPT !.up =
               IF ok
               THEN [up EXCEPT !.pc = "writeFile"] @@
                    [encryptedFile |-> FileEncryptionEncrypt(up.data, up.pw, saltBytes),
                     encryptedMetadata |-> FileEncryptionEncrypt(stringify(metadata), up.pw,
                                                                 randomBytes(saltBytes, 1))]
               ELSE [up EXCEPT !.pc = "catch"]]
    /\ UNCHANGED <<masterPassword, vaultItems, nextId, now, rng, serverUp, serverFile,
                   pushes, sync, calls, crypto, othersButFileServer>>

\* what fs.writeJson, retried, ends in
WriteOutcomes == {"written", "failed", "failedPartial"}
written(old, artifact, outcome) ==
    CASE outcome = "written" -> artifact
      [] outcome = "failedPartial" -> Partial
      [] OTHER -> old

\* filePath is set and <fileId>.enc is written
UploadWriteFile(outcome) ==
    /\ fileServer.up.pc = "writeFile"
    /\ LET up == fileServer.up
       IN  fileServer' = [fileServer EXCEPT
               !.files[up.fileId] = written(@, up.encryptedFile, outcome),
               !.up.filePath = TRUE,
               !.up.pc = IF outcome = "written" THEN "writeMetadata" ELSE "catch"]
    /\ UNCHANGED <<masterPassword, vaultItems, nextId, now, rng, serverUp, serverFile,
                   pushes, sync, calls, crypto, othersButFileServer>>

\* metadataPath is set and <fileId>.meta is written
UploadWriteMetadata(outcome) ==
    /\ fileServer.up.pc = "writeMetadata"
    /\ LET up == fileServer.up
       IN  fileServer' = [fileServer EXCEPT
               !.metadata[up.fileId] = written(@, up.encryptedMetadata, outcome),
               !.up.metadataPath = TRUE,
               !.up.pc = IF outcome = "written" THEN "respond" ELSE "catch"]
    /\ UNCHANGED <<masterPassword, vaultItems, nextId, now, rng, serverUp, serverFile,
                   pushes, sync, calls, crypto, othersButFileServer>>

UploadRespond ==
    /\ fileServer.up.pc = "respond"
    /\ LET up == fileServer.up
       IN  fileServer' = [fileServer EXCEPT
               !.up = NoUpload,
               !.uploaded[up.fileId] = up.data,
               !.owner[up.fileId] = up.pw,
               !.res = response("upload", 200, "", up.fileId, <<>>, "none")]
    /\ UNCHANGED <<masterPassword, vaultItems, nextId, now, rng, serverUp, serverFile,
                   pushes, sync, calls, crypto, othersButFileServer>>

\* a clean-up that removes the file and leaves the metadata
cleanupFileOnly(fs, up, removeFileFails, removeMetadataFails) ==
    [fs EXCEPT !.files[up.fileId] = Absent]

\* the clean-up of the catch block: one try around both removals, so the
\* first fs.remove that throws ends it
cleanup(fs, up, removeFileFails, removeMetadataFails) ==
    LET removeFile == up.filePath /\ fs.files[up.fileId].exists
        removeMetadata == up.metadataPath /\ fs.metadata[up.fileId].exists
    IN  IF removeFile /\ removeFileFails THEN fs
        ELSE [fs EXCEPT
                 !.files[up.fileId] = IF removeFile THEN Absent ELSE @,
                 !.metadata[up.fileId] =
                     IF removeMetadata /\ ~removeMetadataFails THEN Absent ELSE @]

\* whether a removal of the clean-up threw
cleanupThrew(fs, up, removeFileFails, removeMetadataFails) ==
    \/ up.filePath /\ fs.files[up.fileId].exists /\ removeFileFails
    \/ up.metadataPath /\ fs.metadata[up.fileId].exists /\ removeMetadataFails

\* the catch block: clean-up, then the 500
UploadCatch(removeFileFails, removeMetadataFails) ==
    /\ fileServer.up.pc = "catch"
    /\ LET up == fileServer.up
           cleaned == cleanup(fileServer, up, removeFileFails, removeMetadataFails)
       IN  fileServer' = [cleaned EXCEPT
               !.up = NoUpload,
               !.res = response("upload", 500, "UPLOAD_ERROR", up.fileId, <<>>,
                                IF cleanupThrew(fileServer, up, removeFileFails,
                                                removeMetadataFails)
                                THEN "threw" ELSE "done")]
    /\ UNCHANGED <<masterPassword, vaultItems, nextId, now, rng, serverUp, serverFile,
                   pushes, sync, calls, crypto, othersButFileServer>>

\* the catch block of the download
downloadCatch(fileId, message) ==
    IF includesDecrypt(message)
    THEN response("download", 401, "DECRYPTION_ERROR", fileId, <<>>, "none")
    ELSE response("download", 500, "DOWNLOAD_ERROR", fileId, <<>>, "none")

\* GET /api/files/:fileId
downloadFile(fs, fileId, password) ==
    IF ~fs.files[fileId].exists \/ ~fs.metadata[fileId].exists
    THEN response("download", 404, "FILE_NOT_FOUND", fileId, <<>>, "none")
    ELSE LET encryptedMetadata == readJson(fs.metadata[fileId])
             metadataJson == FileEncryptionDecrypt(encryptedMetadata.val, password)
             metadata == parse(metadataJson.val)
             encryptedFile == readJson(fs.files[fileId])
             fileDataBase64 == FileEncryptionDecrypt(encryptedFile.val, password)
         IN  IF ~encryptedMetadata.ok THEN downloadCatch(fileId, encryptedMetadata.err)
             ELSE IF ~metadataJson.ok THEN downloadCatch(fileId, metadataJson.err)
             ELSE IF ~metadata.ok THEN downloadCatch(fileId, metadata.err)
             ELSE IF ~encryptedFile.ok THEN downloadCatch(fileId, encryptedFile.err)
             ELSE IF ~fileDataBase64.ok THEN downloadCatch(fileId, fileDataBase64.err)
             ELSE IF SHA256(fileDataBase64.val) # metadata.val.checksum
             THEN response("download", 500, "INTEGRITY_ERROR", fileId, <<>>, "none")
             ELSE response("download", 200, "", fileId, fileDataBase64.val, "none")

Download(fileId, password) ==
    /\ fileServer' = [fileServer EXCEPT !.res = downloadFile(fileServer, fileId, password)]
    /\ UNCHANGED <<masterPassword, vaultItems, nextId, now, rng, serverUp, serverFile,
                   pushes, sync, calls, crypto, othersButFileServer>>

\* GET /api/files, processFile: one .meta file gives an entry of the
\* listing, or the error its catch pushes on errors
processFile(fs, metaFile, password) ==
    LET encryptedMetadata == readJson(fs.metadata[metaFile])
        metadataJson == FileEncryptionDecrypt(encryptedMetadata.val, password)
        metadata == parse(metadataJson.val)
    IN  IF ~encryptedMetadata.ok THEN Throw(encryptedMetadata.err)
        ELSE IF ~metadataJson.ok THEN Throw(metadataJson.err)
        ELSE IF ~metadata.ok THEN Throw(metadata.err)
        ELSE Return([id |-> metadata.val.id, checksum |-> metadata.val.checksum,
                     hasFile |-> fs.files[metadata.val.id].exists])

\* the .meta files fs.readdir(METADATA_DIR) finds
metadataFiles(fs) == {fileId \in FileIds : fs.metadata[fileId].exists}

\* a listing that gives up at the first record it cannot process
listFilesAllOrNothing(fs, password) ==
    IF \E metaFile \in metadataFiles(fs) : ~processFile(fs, metaFile, password).ok
    THEN response("list", 500, "LIST_ERROR", NoFileId, <<>>, "none") @@
         [files |-> {}, errors |-> {}]
    ELSE response("list", 200, "", NoFileId, <<>>, "none") @@
         [files |-> {processFile(fs, metaFile, password).val :
                        metaFile \in metadataFiles(fs)},
          errors |-> {}]

\* GET /api/files once readdir has answered: files and errors
listFiles(fs, password) ==
    LET processed == {metaFile \in metadataFiles(fs) :
                         processFile(fs, metaFile, password).ok}
    IN  response("list", 200, "", NoFileId, <<>>, "none") @@
        [files |-> {processFile(fs, metaFile, password).val : metaFile \in processed},
         errors |-> {[file |-> metaFile,
                      error |-> processFile(fs, metaFile, password).err] :
                        metaFile \in metadataFiles(fs) \ processed}]

\* GET /api/files; a readdir that fails is the outer catch's LIST_ERROR
ListFiles(password, readdirFails) ==
    /\ fileServer.up.pc = "idle"
    /\ fileServer' = [fileServer EXCEPT !.res =
           IF readdirFails
           THEN response("list", 500, "LIST_ERROR", NoFileId, <<>>, "none")
           ELSE listFiles(fileServer, password)]
    /\ UNCHANGED <<masterPassword, vaultItems, nextId, now, rng, serverUp, serverFile,
                   pushes, sync, calls, crypto, othersButFileServer>>

\* the stored <fileId>.enc is altered: bytes of its ciphertext change, or
\* the file stops being JSON
AlterFileBody(fileId, how) ==
    /\ fileServer.files[fileId].exists
    /\ fileServer.files[fileId].json
    /\ fileServer.uploaded[fileId] # <<>>
    /\ fileId \notin fileServer.altered
    /\ fileServer' = [fileServer EXCEPT
           !.altered = @ \cup {fileId},
           !.files[fileId] = IF how = "flipped"
                             THEN [@ EXCEPT !.encrypted = flipped(@)]
                             ELSE Partial]
    /\ UNCHANGED <<masterPassword, vaultItems, nextId, now, rng, serverUp, serverFile,
                   pushes, sync, calls, crypto, othersButFileServer>>

(***************************************************************************)
(* The file server: POST /api/vault-items, step by step                     *)
(***************************************************************************)
\* the ids of the items in a request body, by their typeof
StringId(s) == [t |-> "string", s |-> s]
NumberId(n) == [t |-> "number", s |-> "", n |-> n]

\* items.filter(item => !item.id || typeof item.id !== 'string')
invalidItems(items) ==
    SelectSeq(items, LAMBDA item : "id" \notin DOMAIN item \/ item.id.t # "string"
                                       \/ item.id.s = "")

\* a vault-items.enc whose write stopped half-way: no JSON, nothing decrypts
PartialSnapshot == [exists |-> TRUE, pw |-> NoPassword, items |-> <<>>, json |-> FALSE]

\* the backup files, by the Date.now() of their name
backupAt(backups, name) == CHOOSE b \in backups : b.name = name
copyTo(backups, name, file) ==
    {b \in backups : b.name # name} \cup {[name |-> name, file |-> file]}

\* how many backups a successful save keeps
keep == 5
\* the names of the backups the clean-up removes: all but the `keep` newest
oldBackups(backups) ==
    {b \in backups : Cardinality({c \in backups : c.name > b.name}) >= keep}

\* the clean-up loop, newest of the old backups first: `removed` calls of
\* fs.remove went through before readdir or a remove threw (all of them when
\* nothing threw); the catch around it only warns
removeBackups(backups, removed) ==
    backups \ {b \in oldBackups(backups) :
                   Cardinality({c \in oldBackups(backups) : c.name > b.name}) < removed}

\* the request arrives: validation, then the paths are computed
PostReceive(r, items, password) ==
    /\ fileServer.posts[r].pc = "idle"
    /\ fileServer' = [fileServer EXCEPT !.posts[r] =
           IF Len(invalidItems(items)) > 0
           THEN [pc |-> "done", status |-> 400, code |-> "INVALID_ITEM_STRUCTURE",
                 items |-> items, pw |-> password, before |-> serverFile,
                 started |-> FALSE]
           ELSE [pc |-> "backup", status |-> 0, code |-> "", items |-> items,
                 pw |-> password, before |-> serverFile, started |-> FALSE,
                 backupPath |-> now]]
    /\ UNCHANGED <<masterPassword, vaultItems, nextId, now, rng, serverUp, serverFile,
                   pushes, sync, calls, crypto, othersButFileServer>>

\* the existing snapshot is copied to the backup; a failing copy is thrown
\* to the outer catch
PostBackup(r, copyFails) ==
    /\ fileServer.posts[r].pc = "backup"
    /\ LET post == fileServer.posts[r]
       IN  fileServer' =
               IF ~serverFile.exists
               THEN [fileServer EXCEPT !.posts[r].pc = "write"]
               ELSE IF copyFails
               THEN [fileServer EXCEPT !.posts[r].pc = "done",
                                       !.posts[r].status = 500,
                                       !.posts[r].code = "SAVE_ERROR"]
               ELSE [fileServer EXCEPT
                        !.posts[r].pc = "write",
                        !.backups = copyTo(@, post.backupPath, serverFile)]
    /\ UNCHANGED <<masterPassword, vaultItems, nextId, now, rng, serverUp, serverFile,
                   pushes, sync, calls, crypto, othersButFileServer>>

\* FileEncryption.encrypt and fs.writeJson(vaultItemsPath, ...)
PostWrite(r, outcome) ==
    /\ fileServer.posts[r].pc = "write"
    /\ LET post == fileServer.posts[r]
       IN  /\ serverFile' =
                  CASE outcome = "written" ->
                           postVaultItems(serverFile, post.items, post.pw)
                    [] outcome = "failedPartial" -> PartialSnapshot
                    [] OTHER -> serverFile
           /\ fileServer' = [fileServer EXCEPT
                  !.posts[r].started = TRUE,
                  !.posts[r].pc = IF outcome = "written" THEN "verify" ELSE "restore"]
    /\ UNCHANGED <<masterPassword, vaultItems, nextId, now, rng, serverUp,
                   pushes, sync, calls, crypto, othersButFileServer>>

\* what the read-back sees: the stored items, or the error of readJson,
\* decrypt or JSON.parse
verification(file, password, readFails) ==
    IF readFails \/ ~file.exists \/ "json" \in DOMAIN file THEN Throw(ErrJson)
    ELSE IF file.pw # password THEN Throw(ErrMalformedUtf8)
    ELSE Return(file.items)

\* the read-back, and after a match the clean-up of old backups and the
\* success response
PostVerify(r, readFails) ==
    /\ fileServer.posts[r].pc = "verify"
    /\ LET post == fileServer.posts[r]
           verifiedItems == verification(serverFile, post.pw, readFails)
       IN  \E removed \in 0..Cardinality(oldBackups(fileServer.backups)) :
             fileServer' =
               IF verifiedItems.ok /\ Len(verifiedItems.val) = Len(post.items)
               THEN [fileServer EXCEPT
                        !.posts[r].pc = "done",
                        !.posts[r].status = 200,
                        !.backups = removeBackups(@, removed)]
               ELSE [fileServer EXCEPT !.posts[r].pc = "restore"]
    /\ UNCHANGED <<masterPassword, vaultItems, nextId, now, rng, serverUp, serverFile,
                   pushes, sync, calls, crypto, othersButFileServer>>

\* catch (saveError): restore from the backup if there is one, a failing
\* copy being logged only; then the outer catch answers
PostRestore(r, copyFails) ==
    /\ fileServer.posts[r].pc = "restore"
    /\ LET post == fileServer.posts[r]
           backupExists == \E b \in fileServer.backups : b.name = post.backupPath
       IN  /\ serverFile' =
                  IF backupExists /\ ~copyFails
                  THEN backupAt(fileServer.backups, post.backupPath).file
                  ELSE serverFile
           /\ fileServer' = [fileServer EXCEPT
                  !.posts[r].pc = "done",
                  !.posts[r].status = 500,
                  !.posts[r].code = "SAVE_ERROR"]
    /\ UNCHANGED <<masterPassword, vaultItems, nextId, now, rng, serverUp,
                   pushes, sync, calls, crypto, othersButFileServer>>

\* the client has its answer; the next request may use the slot
PostForget(r) ==
    /\ fileServer.posts[r].pc = "done"
    /\ fileServer' = [fileServer EXCEPT !.posts[r] = NoPost]
    /\ UNCHANGED <<masterPassword, vaultItems, nextId, now, rng, serverUp, serverFile,
                   pushes, sync, calls, crypto, othersButFileServer>>

\* the items clients POST: valid ones, one without id, one with a number as id
ServerItem(id, name) == [id |-> id, name |-> name]
PostBodies == {<<>>, <<ServerItem(StringId("a"), "n")>>, <<ServerItem(StringId("a"), "m")>>,
               <<ServerItem(StringId("b"), "n"), ServerItem(StringId("a"), "n")>>,
               <<[name |-> "n"]>>, <<ServerItem(NumberId(1), "n")>>}

\* no other request is being handled
Alone(r) == \A q \in Requests \ {r} : fileServer.posts[q].pc = "idle"

\* a request arrives while the server handles no other
PostArrives(r, items, password) == Alone(r) /\ PostReceive(r, items, password)

SaveInit ==
    /\ masterPassword = NoPassword
    /\ vaultItems = <<>>
    /\ nextId = 1
    /\ now = 0
    /\ rng = 0
    /\ serverUp = TRUE
    /\ serverFile = NoFile
    /\ pushes = <<>>
    /\ sync = SyncIdle
    /\ calls = 0
    /\ crypto = CryptoIdle
    /\ Elsewhere

\* the requests arrive one after the other
SaveNext ==
    \/ \E r \in Requests, items \in PostBodies, w \in Passwords : PostArrives(r, items, w)
    \/ \E r \in Requests, copyFails \in BOOLEAN : PostBackup(r, copyFails)
    \/ \E r \in Requests, outcome \in WriteOutcomes : PostWrite(r, outcome)
    \/ \E r \in Requests, readFails \in BOOLEAN : PostVerify(r, readFails)
    \/ \E r \in Requests, copyFails \in BOOLEAN : PostRestore(r, copyFails)
    \/ \E r \in Requests : PostForget(r)
    \/ Tick

SaveSpec == SaveInit /\ [][SaveNext]_vars

(***************************************************************************)
(* Two POST /api/vault-items handlers at once.  fs.writeJson is not one    *)
(* step: the file is opened with truncation, and whatever reads or copies  *)
(* it before the data is written finds no JSON in it                       *)
(***************************************************************************)
\* fs.writeJson(vaultItemsPath, ...) opens the file
PostWriteBegins(r) ==
    /\ fileServer.posts[r].pc = "write"
    /\ serverFile' = PartialSnapshot
    /\ fileServer' = [fileServer EXCEPT !.posts[r].started = TRUE,
                                        !.posts[r].pc = "writing"]
    /\ UNCHANGED <<masterPassword, vaultItems, nextId, now, rng, serverUp,
                   pushes, sync, calls, crypto, othersButFileServer>>

\* ... and its data is in the file
PostWriteEnds(r) ==
    /\ fileServer.posts[r].pc = "writing"
    /\ LET post == fileServer.posts[r]
       IN  serverFile' = postVaultItems(serverFile, post.items, post.pw)
    /\ fileServer' = [fileServer EXCEPT !.posts[r].pc = "verify"]
    /\ UNCHANGED <<masterPassword, vaultItems, nextId, now, rng, serverUp,
                   pushes, sync, calls, crypto, othersButFileServer>>

\* the snapshot the server holds when the requests arrive
StoredSnapshot == postVaultItems(NoFile, <<ServerItem(StringId("a"), "m")>>, "w1")
\* what the two clients send: one item, two items
RaceBodies == {<<ServerItem(StringId("a"), "n")>>,
               <<ServerItem(StringId("b"), "n"), ServerItem(StringId("a"), "n")>>}

RaceInit ==
    /\ masterPassword = NoPassword
    /\ vaultItems = <<>>
    /\ nextId = 1
    /\ now = 0
    /\ rng = 0
    /\ serverUp = TRUE
    /\ serverFile \in {NoFile, StoredSnapshot}
    /\ pushes = <<>>
    /\ sync = SyncIdle
    /\ calls = 0
    /\ crypto = CryptoIdle
    /\ Elsewhere

\* no file-system call fails; each request slot is used once
RaceNext ==
    \/ \E r \in Requests, items \in RaceBodies, w \in SyncPasswords : PostReceive(r, items, w)
    \/ \E r \in Requests : PostBackup(r, FALSE)
    \/ \E r \in Requests : PostWriteBegins(r)
    \/ \E r \in Requests : PostWriteEnds(r)
    \/ \E r \in Requests : PostVerify(r, FALSE)
    \/ \E r \in Requests : PostRestore(r, FALSE)
    \/ Tick

RaceSpec == RaceInit /\ [][RaceNext]_vars

(***************************************************************************)
(* One client saving again and again: the backups pile up and are pruned   *)
(***************************************************************************)
\* the last millisecond the clock of the backup runs reaches
MaxBackupClock == 6

\* Date.now() moves on
BackupTick ==
    /\ now < MaxBackupClock
    /\ now' = now + 1
    /\ UNCHANGED <<masterPassword, vaultItems, nextId, rng, serverUp, serverFile, pushes, sync, calls, crypto, others>>

BackupBodies == {<<ServerItem(StringId("a"), "n")>>}

BackupNext ==
    \/ \E r \in Requests, items \in BackupBodies, w \in SyncPasswords : PostArrives(r, items, w)
    \/ \E r \in Requests, copyFails \in BOOLEAN : PostBackup(r, copyFails)
    \/ \E r \in Requests, outcome \in {"written", "failed"} : PostWrite(r, outcome)
    \/ \E r \in Requests, readFails \in BOOLEAN : PostVerify(r, readFails)
    \/ \E r \in Requests, copyFails \in BOOLEAN : PostRestore(r, copyFails)
    \/ \E r \in Requests : PostForget(r)
    \/ BackupTick

BackupSpec == SaveInit /\ [][BackupNext]_vars

FilesInit ==
    /\ masterPassword = NoPassword
    /\ vaultItems = <<>>
    /\ nextId = 1
    /\ now = 0
    /\ rng = 0
    /\ serverUp = TRUE
    /\ serverFile = NoFile
    /\ pushes = <<>>
    /\ sync = SyncIdle
    /\ calls = 0
    /\ crypto = CryptoIdle
    /\ read = NoRead
    /\ AuthIdle
    /\ fileServer = FileServerStart
    /\ UploadIdle
    /\ ClientIdle

FilesNext ==
    \/ \E data \in Uploads, w \in Passwords : UploadReceive(data, w)
    \/ \E ok \in BOOLEAN, r \in Salts : UploadEncrypt(ok, r)
    \/ \E outcome \in WriteOutcomes : UploadWriteFile(outcome)
    \/ \E outcome \in WriteOutcomes : UploadWriteMetadata(outcome)
    \/ UploadRespond
    \/ \E f, m \in BOOLEAN : UploadCatch(f, m)
    \/ \E fileId \in FileIds, w \in Passwords : Download(fileId, w)
    \/ \E w \in Passwords, readdirFails \in BOOLEAN : ListFiles(w, readdirFails)
    \/ \E fileId \in FileIds, how \in {"flipped", "notJson"} : AlterFileBody(fileId, how)

FilesSpec == FilesInit /\ [][FilesNext]_vars

(***************************************************************************)
(* uploadFileToServer, step by step, with FileServerAPI.isAvailable        *)
(***************************************************************************)
ErrPasswordRequired == "Master password required for file operations"
ErrFileNotFound == "File not found"
ErrNotAvailable == "File server not available"
ErrUploadFailed == "Upload failed"
\* what Dexie throws when the table cannot be written
ErrDatabase == "DatabaseClosedError"

\* the values of an optional boolean field
True == "true"
False == "false"
NoBoolean == "undefined"

\* an attachment kept in the browser only
LocalFile(name) == [name |-> name, data |-> "bytes of " \o name, storageType |-> "local"]
baseUrl == "http://localhost:3004"

\* an attachment made server-only by the upload
serverOnlyFileData(fileData, fileId, t) ==
    [name |-> fileData.name, storageType |-> "server", serverId |-> fileId,
     serverUrl |-> baseUrl, lastSynced |-> t]

\* { ...fileData, serverId, storageType: 'hybrid', serverUrl, lastSynced }
updatedFileData(fileData, fileId, t) ==
    [f \in DOMAIN fileData \cup {"serverId", "storageType", "serverUrl", "lastSynced"} |->
        CASE f = "serverId" -> fileId
          [] f = "storageType" -> "hybrid"
          [] f = "serverUrl" -> baseUrl
          [] f = "lastSynced" -> t
          [] OTHER -> fileData[f]]

\* the updatedItem uploadFileToServer hands to updateItem
updatedItem(item, fileIndex, fileId, t) ==
    LET serverFileIds == IF item.serverFileIds = Undefined THEN <<>> ELSE item.serverFileIds
    IN  [item EXCEPT
            !.fileData = [@ EXCEPT ![fileIndex + 1] = updatedFileData(@, fileId, t)],
            !.useServerStorage = True,
            !.serverFileIds = IF \E i \in 1..Len(serverFileIds) :
                                     serverFileIds[i] = StringId(fileId)
                              THEN serverFileIds ELSE Append(serverFileIds, StringId(fileId)),
            !.syncStatus = "synced"]

\* !item || !item.fileData || !item.fileData[fileIndex]
fileMissing(items, fileIndex) ==
    \/ items = <<>>
    \/ items[1].fileData = Undefined
    \/ fileIndex + 1 \notin DOMAIN items[1].fileData

\* the call, up to its first request
UploadFileToServer(itemId, fileIndex) ==
    /\ upload.pc \in {"idle", "done"}
    /\ calls < MaxCalls
    /\ calls' = calls + 1
    /\ LET items == getItemById(vaultItems, itemId, masterPassword).items
           call == [NoUploadCall EXCEPT !.itemId = itemId, !.fileIndex = fileIndex,
                                        !.before = items]
       IN  upload' =
               IF masterPassword = NoPassword
               THEN [call EXCEPT !.pc = "done", !.thrown = ErrPasswordRequired,
                                 !.original = ErrPasswordRequired]
               ELSE IF fileMissing(items, fileIndex)
               THEN [call EXCEPT !.pc = "done", !.thrown = ErrFileNotFound,
                                 !.original = ErrFileNotFound]
               ELSE [call EXCEPT !.pc = "probe", !.item = items]
    /\ UNCHANGED <<masterPassword, vaultItems, nextId, now, rng, serverUp, serverFile,
                   pushes, sync, crypto, othersButUpload>>

\* what the health request can end in
HealthOutcomes == {"ok", "degraded", "non2xx", "networkError"}
\* healthCheck: the body of a 2xx answer, or the error thrown
healthCheck(outcome) ==
    CASE outcome = "ok" -> Return([status |-> "ok"])
      [] outcome = "degraded" -> Return([status |-> "error"])
      [] outcome = "non2xx" -> Throw("Health check failed")
      [] OTHER -> Throw("Failed to fetch")
\* isAvailable: the try / catch around healthCheck
isAvailable(outcome) ==
    IF healthCheck(outcome).ok THEN healthCheck(outcome).val.status = "ok" ELSE FALSE

\* the health request is answered, or fails
IsAvailableReturns(outcome) ==
    /\ upload.pc = "probe"
    /\ upload' = IF isAvailable(outcome)
                 THEN [upload EXCEPT !.pc = "upload"]
                 ELSE [upload EXCEPT !.pc = "catch", !.original = ErrNotAvailable]
    /\ UNCHANGED <<masterPassword, vaultItems, nextId, now, rng, serverUp, serverFile,
                   pushes, sync, calls, crypto, othersButUpload>>

\* the ids the server has handed out for this item so far
knownIds(item) ==
    {item.fileData[i].serverId : i \in {j \in DOMAIN item.fileData :
                                            "serverId" \in DOMAIN item.fileData[j]}}

\* fileServerAPI.uploadFile answers with a new fileId
UploadFileReturns(fileId) ==
    /\ upload.pc = "upload"
    /\ fileId \notin knownIds(upload.item[1])
    /\ upload' = [upload EXCEPT !.pc = "persist", !.fileId = fileId]
    /\ UNCHANGED <<masterPassword, vaultItems, nextId, now, rng, serverUp, serverFile,
                   pushes, sync, calls, crypto, othersButUpload>>

\* ... or throws
UploadFileThrows ==
    /\ upload.pc = "upload"
    /\ upload' = [upload EXCEPT !.pc = "catch", !.original = ErrUploadFailed]
    /\ UNCHANGED <<masterPassword, vaultItems, nextId, now, rng, serverUp, serverFile,
                   pushes, sync, calls, crypto, othersButUpload>>

\* what this.updateItem(id, updates) does to the table, the generator and
\* the pushes
UpdatedItems(id, updates) ==
    [i \in 1..Len(vaultItems) |->
        IF vaultItems[i].id = id
        THEN updateItemRow(vaultItems[i], updates, masterPassword, rng, now)
        ELSE vaultItems[i]]
UpdatePushes(id, updates) ==
    Append(InFlight(pushes),
           syncVaultItemsToServerCall("update", id, updates, masterPassword,
                                      callReturned(Void)))

\* await this.updateItem(itemId, updatedItem) resolves
UploadPersist ==
    /\ upload.pc = "persist"
    /\ LET updates == updatedItem(upload.item[1], upload.fileIndex, upload.fileId, now)
       IN  /\ vaultItems' = UpdatedItems(upload.itemId, updates)
           /\ rng' = rngAfter(updates, masterPassword, rng)
           /\ pushes' = UpdatePushes(upload.itemId, updates)
    /\ sync' = Disturb(sync)
    /\ upload' = [upload EXCEPT !.pc = "done"]
    /\ UNCHANGED <<masterPassword, nextId, now, serverUp, serverFile, calls, crypto,
                   othersButUpload>>

\* ... or the table cannot be written
UploadPersistThrows ==
    /\ upload.pc = "persist"
    /\ upload' = [upload EXCEPT !.pc = "catch", !.original = ErrDatabase]
    /\ UNCHANGED <<masterPassword, vaultItems, nextId, now, rng, serverUp, serverFile,
                   pushes, sync, calls, crypto, othersButUpload>>

\* catch: await this.updateItem(itemId, { syncStatus: 'error' }); throw error
MarkSyncError ==
    /\ upload.pc = "catch"
    /\ LET updates == [syncStatus |-> "error"]
       IN  /\ vaultItems' = UpdatedItems(upload.itemId, updates)
           /\ rng' = rngAfter(updates, masterPassword, rng)
           /\ pushes' = UpdatePushes(upload.itemId, updates)
    /\ sync' = Disturb(sync)
    /\ upload' = [upload EXCEPT !.pc = "done", !.thrown = upload.original]
    /\ UNCHANGED <<masterPassword, nextId, now, serverUp, serverFile, calls, crypto,
                   othersButUpload>>

\* ... or that updateItem throws, and its error is what the caller gets
MarkSyncErrorThrows ==
    /\ upload.pc = "catch"
    /\ upload' = [upload EXCEPT !.pc = "done", !.thrown = ErrDatabase]
    /\ UNCHANGED <<masterPassword, vaultItems, nextId, now, rng, serverUp, serverFile,
                   pushes, sync, calls, crypto, othersButUpload>>

\* an item of category 'files' as the table holds it
FileRow(description, fileData, serverFileIds, useServerStorage) ==
    [id |-> 1, name |-> "a", category |-> "files", createdAt |-> 0, updatedAt |-> 0,
     syncStatus |-> NoStatus, password |-> Undefined, username |-> Undefined,
     description |-> description, url |-> Undefined, linkUrl |-> Undefined,
     fileData |-> fileData, serverFileIds |-> serverFileIds,
     useServerStorage |-> useServerStorage]

\* the descriptions a stored item can have: none, as typed while the vault
\* was locked, encrypted with this password or with another
StoredDescriptions ==
    {Undefined, <<Ch("d")>>, encrypt(<<Ch("d")>>, "w1", 0, anIV)} \cup
    {encrypt(<<Ch("d")>>, "w2", r, anIV) : r \in Salts}

\* the attachments a stored item can have
StoredFileData ==
    {[fileData |-> Undefined, serverFileIds |-> Undefined, useServerStorage |-> NoBoolean],
     [fileData |-> <<LocalFile("x")>>, serverFileIds |-> Undefined,
      useServerStorage |-> False],
     [fileData |-> <<LocalFile("x"), LocalFile("y")>>, serverFileIds |-> Undefined,
      useServerStorage |-> NoBoolean],
     [fileData |-> <<updatedFileData(LocalFile("x"), "f1", 0), LocalFile("y")>>,
      serverFileIds |-> <<StringId("f1")>>, useServerStorage |-> True]}

UploadInit ==
    /\ masterPassword \in {NoPassword, "w1"}
    /\ \E description \in StoredDescriptions, files \in StoredFileData :
          vaultItems = <<FileRow(description, files.fileData, files.serverFileIds,
                                 files.useServerStorage)>>
    /\ nextId = 2
    /\ now = 0
    /\ rng = 0
    /\ serverUp = TRUE
    /\ serverFile = NoFile
    /\ pushes = <<>>
    /\ sync = SyncIdle
    /\ calls = 0
    /\ crypto = CryptoIdle
    /\ Elsewhere

UploadNext ==
    \/ \E itemId \in 1..2, fileIndex \in 0..2 : UploadFileToServer(itemId, fileIndex)
    \/ \E outcome \in HealthOutcomes : IsAvailableReturns(outcome)
    \/ \E fileId \in FileIds : UploadFileReturns(fileId)
    \/ UploadFileThrows
    \/ UploadPersist
    \/ UploadPersistThrows
    \/ MarkSyncError
    \/ MarkSyncErrorThrows
    \/ Tick

UploadSpec == UploadInit /\ [][UploadNext]_vars

\* what runs once it can: the continuations after the table's own reads and
\* writes.  Nothing makes the server answer a request, and the client sets
\* no timer on one.
UploadLiveSpec ==
    /\ UploadSpec
    /\ WF_vars(UploadPersist \/ UploadPersistThrows)
    /\ WF_vars(MarkSyncError \/ MarkSyncErrorThrows)

(***************************************************************************)
(* The file server: retryOperation, step by step                           *)
(***************************************************************************)
\* retryOperation = async (operation, maxRetries = 3, delay = 1000)
DefaultMaxRetries == 3
DefaultDelay == 1000

\* what an attempt can end in
OperationValues == {"value"}
OperationErrors == {"EBUSY", "ENOENT"}

\* a wait of the same length after every failed attempt
backoffConstant(delay, attempt) == delay

\* setTimeout(resolve, delay * attempt)
backoff(delay, attempt) == delay * attempt

\* the call: the loop starts with attempt 1 and operation() is invoked
RetryOperation(maxRetries, delay) ==
    /\ retry.pc \in {"idle", "returned", "thrown"}
    /\ calls < MaxCalls
    /\ calls' = calls + 1
    /\ retry' = [pc |-> "attempt", maxRetries |-> maxRetries, delay |-> delay,
                 attempt |-> 1, outcomes |-> <<>>, waits |-> <<>>]
    /\ UNCHANGED <<masterPassword, vaultItems, nextId, now, rng, serverUp, serverFile, pushes, sync, crypto, othersButRetry>>

\* return await operation(): the operation's promise is fulfilled
RetryAttemptReturns(value) ==
    /\ retry.pc = "attempt"
    /\ retry' = [retry EXCEPT !.pc = "returned",
                              !.outcomes = Append(@, Return(value))]
    /\ UNCHANGED <<masterPassword, vaultItems, nextId, now, rng, serverUp, serverFile, pushes, sync, calls, crypto, othersButRetry>>

\* catch (error): the last attempt's error is thrown, an earlier one's is
\* followed by the wait
RetryAttemptThrows(error) ==
    /\ retry.pc = "attempt"
    /\ retry' = IF retry.attempt = retry.maxRetries
                THEN [retry EXCEPT !.pc = "thrown", !.outcomes = Append(@, Throw(error))]
                ELSE [retry EXCEPT !.pc = "wait", !.outcomes = Append(@, Throw(error)),
                                   !.waits = Append(@, backoff(retry.delay, retry.attempt))]
    /\ UNCHANGED <<masterPassword, vaultItems, nextId, now, rng, serverUp, serverFile, pushes, sync, calls, crypto, othersButRetry>>

\* the timer fires: attempt++ and operation() is invoked again
RetryTimer ==
    /\ retry.pc = "wait"
    /\ retry' = [retry EXCEPT !.pc = "attempt", !.attempt = @ + 1]
    /\ UNCHANGED <<masterPassword, vaultItems, nextId, now, rng, serverUp, serverFile, pushes, sync, calls, crypto, othersButRetry>>

RetryNext ==
    \/ \E maxRetries \in 1..DefaultMaxRetries, delay \in {DefaultDelay, 1} :
          RetryOperation(maxRetries, delay)
    \/ \E value \in OperationValues : RetryAttemptReturns(value)
    \/ \E error \in OperationErrors : RetryAttemptThrows(error)
    \/ RetryTimer

RetrySpec == SaveInit /\ [][RetryNext]_vars

\* the operation's promise settles, and a timer that was set fires
RetryLiveSpec ==
    /\ RetrySpec
    /\ WF_vars(\E value \in OperationValues : RetryAttemptReturns(value))
    /\ WF_vars(\E error \in OperationErrors : RetryAttemptThrows(error))
    /\ WF_vars(RetryTimer)

(***************************************************************************)
(* An item with attachments: uploads, the pushes they start, and autoSync  *)
(***************************************************************************)
TierInit ==
    /\ masterPassword = "w1"
    /\ \E files \in StoredFileData :
          vaultItems = <<FileRow(Undefined, files.fileData, files.serverFileIds,
                                 files.useServerStorage)>>
    /\ nextId = 2
    /\ now = 0
    /\ rng = 0
    /\ serverUp = TRUE
    /\ serverFile = NoFile
    /\ pushes = <<>>
    /\ sync = SyncIdle
    /\ calls = 0
    /\ crypto = CryptoIdle
    /\ Elsewhere

TierNext ==
    \/ \E itemId \in 1..(nextId - 1), fileIndex \in 0..1 : UploadFileToServer(itemId, fileIndex)
    \/ \E outcome \in HealthOutcomes : IsAvailableReturns(outcome)
    \/ \E fileId \in FileIds : UploadFileReturns(fileId)
    \/ UploadFileThrows
    \/ UploadPersist
    \/ UploadPersistThrows
    \/ MarkSyncError
    \/ MarkSyncErrorThrows
    \/ \E i \in 1..Len(pushes) : PushProbe(i)
    \/ \E i \in 1..Len(pushes) : PushRead(i)
    \/ \E i \in 1..Len(pushes) : PushSaved(i)
    \/ \E i \in 1..Len(pushes) : PushSaveFailed(i)
    \/ AutoSync
    \/ AutoSyncProbe
    \/ AutoSyncLoadProbe
    \/ AutoSyncGet
    \/ AutoSyncInsert

TierSpec == TierInit /\ [][TierNext]_vars

(***************************************************************************)
(* downloadFileFromServer, step by step                                    *)
(***************************************************************************)
\* what FileServerAPI.downloadFile and getFileMetadata can answer
Blobs == {"bytes of x", "bytes of y"}
ServerMetadata == {[name |-> "x", type |-> "text/plain", size |-> 1],
                   [name |-> "y", type |-> "image/png", size |-> 2]}
FileNames == {"x", "y"}
ErrDownloadFailed == "Download failed"
ErrMetadataFailed == "Failed to get metadata"

\* an attachment named as the caller said
downloadedFileDataNamedByCaller(metadata, arrayBuffer, serverId, fileName, t) ==
    [name |-> fileName, type |-> metadata.type, size |-> metadata.size,
     data |-> arrayBuffer, serverId |-> serverId, storageType |-> "server",
     serverUrl |-> baseUrl, lastSynced |-> t]

\* the fileData downloadFileFromServer returns
downloadedFileData(metadata, arrayBuffer, serverId, fileName, t) ==
    [name |-> metadata.name, type |-> metadata.type, size |-> metadata.size,
     data |-> arrayBuffer, serverId |-> serverId, storageType |-> "server",
     serverUrl |-> baseUrl, lastSynced |-> t]

\* the call, up to fileServerAPI.downloadFile(serverId)
DownloadFileFromServer(serverId, fileName) ==
    /\ download.pc \in {"idle", "returned", "thrown"}
    /\ calls < MaxCalls
    /\ calls' = calls + 1
    /\ download' = IF masterPassword = NoPassword
                   THEN [pc |-> "thrown", serverId |-> serverId, fileName |-> fileName,
                         thrown |-> ErrPasswordRequired, requests |-> 0]
                   ELSE [pc |-> "blob", serverId |-> serverId, fileName |-> fileName,
                         requests |-> 1]
    /\ UNCHANGED <<masterPassword, vaultItems, nextId, now, rng, serverUp, serverFile, pushes, sync, crypto, othersButDownload>>

\* the blob arrives; blob.arrayBuffer(), then getFileMetadata(serverId)
DownloadBlobReturns(blob) ==
    /\ download.pc = "blob"
    /\ download' = [pc |-> "metadata", serverId |-> download.serverId,
                    fileName |-> download.fileName, blob |-> blob, requests |-> 2]
    /\ UNCHANGED <<masterPassword, vaultItems, nextId, now, rng, serverUp, serverFile, pushes, sync, calls, crypto, othersButDownload>>

\* downloadFile throws: catch (error) { throw error }
DownloadBlobThrows ==
    /\ download.pc = "blob"
    /\ download' = [pc |-> "thrown", serverId |-> download.serverId,
                    fileName |-> download.fileName, thrown |-> ErrDownloadFailed,
                    requests |-> 1]
    /\ UNCHANGED <<masterPassword, vaultItems, nextId, now, rng, serverUp, serverFile, pushes, sync, calls, crypto, othersButDownload>>

\* the metadata arrives and the fileData is returned
DownloadMetadataReturns(metadata) ==
    /\ download.pc = "metadata"
    /\ download' = [pc |-> "returned", serverId |-> download.serverId,
                    fileName |-> download.fileName, blob |-> download.blob,
                    metadata |-> metadata, requests |-> 2,
                    value |-> downloadedFileData(metadata, download.blob, download.serverId,
                                       download.fileName, now)]
    /\ UNCHANGED <<masterPassword, vaultItems, nextId, now, rng, serverUp, serverFile, pushes, sync, calls, crypto, othersButDownload>>

\* getFileMetadata throws
DownloadMetadataThrows ==
    /\ download.pc = "metadata"
    /\ download' = [pc |-> "thrown", serverId |-> download.serverId,
                    fileName |-> download.fileName, thrown |-> ErrMetadataFailed,
                    requests |-> 2]
    /\ UNCHANGED <<masterPassword, vaultItems, nextId, now, rng, serverUp, serverFile, pushes, sync, calls, crypto, othersButDownload>>

DownloadNext ==
    \/ \E w \in SyncPasswords : setMasterPassword(w)
    \/ clearMasterPassword
    \/ Tick
    \/ \E serverId \in FileIds, fileName \in FileNames : DownloadFileFromServer(serverId, fileName)
    \/ \E blob \in Blobs : DownloadBlobReturns(blob)
    \/ DownloadBlobThrows
    \/ \E metadata \in ServerMetadata : DownloadMetadataReturns(metadata)
    \/ DownloadMetadataThrows

DownloadSpec == UploadInit /\ [][DownloadNext]_vars

(***************************************************************************)
(* deleteItem, step by step, and the server's DELETE /api/vault-items/:id  *)
(***************************************************************************)
\* DELETE /api/vault-items/:itemId, as FileServerAPI.deleteVaultItem sees it
deleteVaultItem(file, itemId, password) ==
    LET filteredItems == SelectSeq(file.items, LAMBDA item : item.id # itemId)
    IN  IF ~file.exists THEN Throw("Failed to delete vault item")
        ELSE IF file.pw # password THEN Throw("Failed to delete vault item")
        ELSE IF Len(filteredItems) = Len(file.items)
        THEN Throw("Failed to delete vault item")
        ELSE Return([file EXCEPT !.items = filteredItems])

\* a delete(id) that leaves the row in place
deleteNothing(table, id) == table

\* db.vaultItems.delete(id)
deleteRow(table, id) == SelectSeq(table, LAMBDA row : row.id # id)

\* the push deleteItem starts and does not await, and the call returns
deleteItemReturns(remote) ==
    /\ pushes' = Append(InFlight(pushes),
                        syncVaultItemsToServerCall("delete", deletion.id, Void,
                                                   masterPassword, callReturned(Void)))
    /\ deletion' = [deletion EXCEPT !.pc = "returned", !.remote = remote]

\* the call, up to the end of await this.getItemById(id)
DeleteItem(id) ==
    /\ deletion.pc \in {"idle", "returned"}
    /\ calls < MaxCalls
    /\ calls' = calls + 1
    /\ deletion' = [pc |-> "delete", id |-> id,
                    item |-> getItemById(vaultItems, id, masterPassword).items,
                    pw |-> NoPassword, remote |-> "none"]
    /\ UNCHANGED <<masterPassword, vaultItems, nextId, now, rng, serverUp, serverFile, pushes, sync, crypto, othersButDeletion>>

\* await db.vaultItems.delete(id), then if (this._masterPassword && item)
DeleteLocal ==
    /\ deletion.pc = "delete"
    /\ vaultItems' = deleteRow(vaultItems, deletion.id)
    /\ sync' = Disturb(sync)
    /\ IF masterPassword # NoPassword /\ deletion.item # <<>>
       THEN /\ deletion' = [deletion EXCEPT !.pc = "probe", !.pw = masterPassword]
            /\ UNCHANGED pushes
       ELSE deleteItemReturns("skipped")
    /\ UNCHANGED <<masterPassword, nextId, now, rng, serverUp, serverFile, calls, crypto, othersButDeletion>>

\* await fileServerAPI.isAvailable() answers
DeleteProbe ==
    /\ deletion.pc = "probe"
    /\ IF serverUp
       THEN /\ deletion' = [deletion EXCEPT !.pc = "remote"]
            /\ UNCHANGED pushes
       ELSE deleteItemReturns("unavailable")
    /\ UNCHANGED <<masterPassword, vaultItems, nextId, now, rng, serverUp, serverFile, sync, calls, crypto, othersButDeletion>>

\* await fileServerAPI.deleteVaultItem(String(item.id)) answers or throws
DeleteRemote ==
    /\ deletion.pc = "remote"
    /\ LET answer == IF serverUp
                       THEN deleteVaultItem(serverFile, String(deletion.item[1].id),
                                            deletion.pw)
                       ELSE Throw("Failed to fetch")
       IN  IF answer.ok
           THEN serverFile' = answer.val /\ deleteItemReturns("deleted")
           ELSE UNCHANGED serverFile /\ deleteItemReturns("failed")
    /\ UNCHANGED <<masterPassword, vaultItems, nextId, now, rng, serverUp, sync, calls, crypto, othersButDeletion>>

\* a vault whose one item the server has saved
DeleteInit ==
    /\ masterPassword = "w1"
    /\ vaultItems = <<addItemRow(Note, "w1", 0, 1, 0)>>
    /\ nextId = 2
    /\ now = 0
    /\ rng = rngAfter(Note, "w1", 0)
    /\ serverUp \in BOOLEAN
    /\ serverFile = postVaultItems(NoFile, itemsForServer(getAllItems(vaultItems, "w1").items), "w1")
    /\ pushes = <<>>
    /\ sync = SyncIdle
    /\ calls = 0
    /\ crypto = CryptoIdle
    /\ Elsewhere

DeleteNext ==
    \/ clearMasterPassword
    \/ \E w \in SyncPasswords : setMasterPassword(w)
    \/ \E item \in SyncAddInputs : addItem(item)
    \/ \E id \in 1..nextId : DeleteItem(id)
    \/ DeleteLocal
    \/ DeleteProbe
    \/ DeleteRemote
    \/ ServerUpDown
    \/ \E i \in 1..Len(pushes) : PushProbe(i)
    \/ \E i \in 1..Len(pushes) : PushRead(i)
    \/ \E i \in 1..Len(pushes) : PushSaved(i)
    \/ \E i \in 1..Len(pushes) : PushSaveFailed(i)
    \/ AutoSync
    \/ AutoSyncProbe
    \/ AutoSyncLoadProbe
    \/ AutoSyncGet
    \/ AutoSyncInsert

DeleteSpec == DeleteInit /\ [][DeleteNext]_vars

\* the same vault with nothing writing to the table but autoSync, whose
\* inserts can fail, and another client writing to the snapshot
ImportNext ==
    \/ clearMasterPassword
    \/ \E w \in SyncPasswords : setMasterPassword(w)
    \/ Tick
    \/ ServerUpDown
    \/ \E id \in {String(1), String(2)}, item \in PutInputs : PutVaultItem(id, item)
    \/ AutoSync
    \/ AutoSyncProbe
    \/ AutoSyncLoadProbe
    \/ AutoSyncGet
    \/ AutoSyncInsert
    \/ AutoSyncInsertThrows

ImportSpec == DeleteInit /\ [][ImportNext]_vars

\* what runs once it can: the continuation after the table's own delete.
\* Nothing makes the server answer the health request or the DELETE, and
\* the client sets no timer on either.
DeleteLiveSpec == DeleteSpec /\ WF_vars(DeleteLocal)

(***************************************************************************)
(* A second client of the same vault: its table is empty, the server holds *)
(* the snapshot another client pushed (two notes, the newer one first, as  *)
(* getAllItems orders them, under that client's ids 2 and 1)               *)
(***************************************************************************)
NoteB == [Note EXCEPT !.name = "b"]
OtherClientSnapshot ==
    itemsForServer(<<addItemRow(NoteB, NoPassword, 0, 2, 1),
                     addItemRow(Note, NoPassword, 0, 1, 0)>>)

SecondClientInit ==
    /\ masterPassword = "w1"
    /\ vaultItems = <<>>
    /\ nextId = 1
    /\ now = 0
    /\ rng = 0
    /\ serverUp \in BOOLEAN
    /\ serverFile = postVaultItems(NoFile, OtherClientSnapshot, "w1")
    /\ pushes = <<>>
    /\ sync = SyncIdle
    /\ calls = 0
    /\ crypto = CryptoIdle
    /\ Elsewhere

SecondClientSpec == SecondClientInit /\ [][DeleteNext]_vars

(***************************************************************************)
(* deleteItem of an item whose attachment the file server stores           *)
(***************************************************************************)
\* the file server after the upload of "d1" under "w1" was answered with f1
AttachmentStored ==
    [FileServerStart EXCEPT
        !.files["f1"] = FileEncryptionEncrypt(Text("d1"), "w1", 0),
        !.metadata["f1"] =
            FileEncryptionEncrypt(stringify([id |-> "f1", checksum |-> SHA256(Text("d1"))]),
                                  "w1", randomBytes(0, 1)),
        !.generated = {"f1"},
        !.uploaded["f1"] = Text("d1"),
        !.owner["f1"] = "w1",
        !.res = response("upload", 200, "", "f1", <<>>, "none")]

\* ... and the vault after uploadFileToServer stored that id with the item
\* and the push of the item was saved
AttachmentInit ==
    /\ masterPassword = "w1"
    /\ vaultItems = <<FileRow(Undefined, <<updatedFileData(LocalFile("x"), "f1", 0)>>,
                              <<StringId("f1")>>, True)>>
    /\ nextId = 2
    /\ now = 0
    /\ rng = 0
    /\ serverUp \in BOOLEAN
    /\ serverFile = postVaultItems(NoFile,
                                   itemsForServer(getAllItems(vaultItems, "w1").items), "w1")
    /\ pushes = <<>>
    /\ sync = SyncIdle
    /\ calls = 0
    /\ crypto = CryptoIdle
    /\ read = NoRead
    /\ AuthIdle
    /\ fileServer = AttachmentStored
    /\ UploadIdle
    /\ ClientIdle

AttachmentNext ==
    \/ DeleteNext
    \/ \E fileId \in FileIds, w \in Passwords : Download(fileId, w)

AttachmentSpec == AttachmentInit /\ [][AttachmentNext]_vars

(***************************************************************************)
(* Claims about autoSyncVaultItems (Spec)                                   *)
(***************************************************************************)
\* the (name, category, createdAt) keys of a snapshot's items
SnapshotKeys(items) == {itemKey(importRows(items, 1)[k]) : k \in 1..Len(items)}

\* autoSyncVaultItems, having found the server available, returns success
\* and no local write landed between its clear() and its inserts
AutoSyncLoads ==
    /\ sync.pc \in {"loadProbe", "get", "insert"}
    /\ sync'.pc = "done"
    /\ sync'.result.success
    /\ ~sync.disturbed

\* C1 (as stated): autoSync with an active password and an available server,
\* returning success over a snapshot of N items, returns action 'loaded'
\* with count N and a subsequent getAllItems returns exactly N items.
C1_SnapshotConvergence ==
    [][AutoSyncLoads =>
          /\ sync'.result.action = "loaded"
          /\ sync'.result.count = Len(sync.loaded)
          /\ Len(getAllItems(vaultItems', masterPassword').items) = Len(sync.loaded)]_vars

\* C1 (amended): ... returns action 'loaded' with count N and a subsequent
\* getAllItems returns one item per distinct (name, category, createdAt) key
\* of the snapshot, whatever was stored locally before: N items only when
\* the keys of the snapshot are distinct.
C1_SnapshotConvergencePerKey ==
    [][AutoSyncLoads =>
          /\ sync'.result.action = "loaded"
          /\ sync'.result.count = Len(sync.loaded)
          /\ Len(getAllItems(vaultItems', masterPassword').items)
                 = Cardinality(SnapshotKeys(sync.loaded))]_vars

\* a store that held one item now holds the one item of the snapshot
C1_Witness ==
    /\ sync.pc = "done"
    /\ sync.result = syncResult(TRUE, "loaded", 1, "")
    /\ ~sync.disturbed
    /\ Len(vaultItems) = 1
    /\ vaultItems[1].id = 2

\* C2: when the probe reports the server unreachable, autoSyncVaultItems
\* (with an active password) returns success = true with action 'none' and
\* leaves the local table and the server snapshot unchanged.
C2_UnreachableServerLeavesAllUntouched ==
    [][(sync.pc = "probe" /\ sync.pw # NoPassword /\ ~serverUp /\ sync' # sync) =>
          /\ sync'.pc = "done"
          /\ sync'.result.success
          /\ sync'.result.action = "none"
          /\ vaultItems' = vaultItems
          /\ serverFile' = serverFile]_vars

\* autoSync has returned 'none' while the server, holding a snapshot, is
\* down and the local table holds an item
C2_Witness ==
    /\ sync.pc = "done"
    /\ sync.result.success
    /\ sync.result.action = "none"
    /\ ~serverUp
    /\ serverFile.exists
    /\ vaultItems # <<>>

\* C3: autoSync pulls without pushing first: when it returns 'loaded' the
\* local table is the import of the snapshot it fetched and nothing else, so
\* a write whose push the server had not saved when the pull was served is
\* no longer in the table.
C3_PullOverwritesUnpushedWrite ==
    [][(sync.pc = "insert" /\ sync'.pc = "done" /\ ~sync.disturbed) =>
          /\ vaultItems' = removeDuplicateItems(importRows(sync.loaded, nextId)).table
          /\ \A id \in sync.pendingAtFetch : Row(vaultItems', id) = <<>>]_vars

\* addItem returned id 1, its push was still under way when the pull was
\* served, and after autoSync the table is empty
C3_Witness ==
    /\ sync.pc = "done"
    /\ sync.result = syncResult(TRUE, "loaded", 0, "")
    /\ ~sync.disturbed
    /\ sync.pendingAtFetch = {1}
    /\ vaultItems = <<>>
    /\ \E i \in 1..Len(pushes) :
           pushes[i].op = "add" /\ pushes[i].id = 1 /\ pushes[i].call = callReturned(1)

(***************************************************************************)
(* Claims about the background push (PushSpec)                              *)
(***************************************************************************)
\* C4: addItem and updateItem complete (addItem returning the new id) once
\* the local write is persisted, whatever the push does: succeed, fail, or
\* never complete.
C4_CallCompletesWhateverThePush ==
    \A i \in 1..Len(pushes) :
        /\ pushes[i].call.status = "returned"
        /\ pushes[i].op = "add" =>
               pushes[i].call.value = pushes[i].id /\ pushes[i].id < nextId
        /\ pushes[i].op = "update" => pushes[i].call.value = Void

\* one addItem's push has failed at the save, another's has not got past
\* its probe; both calls returned their ids and both rows are stored
C4_Witness ==
    /\ Len(pushes) = 2
    /\ pushes[1].op = "add" /\ pushes[2].op = "add"
    /\ pushes[1].pc = "failed" /\ pushes[1].error = "Failed to save vault items"
    /\ pushes[2].pc = "probe"
    /\ pushes[1].call = callReturned(pushes[1].id)
    /\ pushes[2].call = callReturned(pushes[2].id)
    /\ Row(vaultItems, pushes[1].id) # <<>>
    /\ Row(vaultItems, pushes[2].id) # <<>>

\* the values of syncStatus that report a write the server does not have
Degraded == {"pending", "error", "local-only"}

\* C5: when the push issued after a local write fails (server unavailable
\* or save error), the written item's syncStatus is a degraded value.
C5_FailedPushDegradesSyncStatus ==
    \A i \in 1..Len(pushes) :
        (/\ pushes[i].pc = "failed"
         /\ pushes[i].error \in {"Server not available", "Failed to save vault items"})
            => \A k \in 1..Len(vaultItems) :
                   vaultItems[k].id = pushes[i].id => vaultItems[k].syncStatus \in Degraded

(***************************************************************************)
(* Claims about what is stored (StoreSpec)                                  *)
(***************************************************************************)
\* v is the envelope encrypt makes of plain under password w
isEnvelopeOf(v, plain, w) == Len(split(v)) = 3 /\ decrypt(v, w) = Return(plain)

\* addItem or updateItem is called with an active master password
WriteUnlocked == calls' = calls + 1 /\ masterPassword # NoPassword

\* C6 (as stated): with an active master password, after addItem or
\* updateItem every sensitive field supplied is stored as a three-part
\* colon-delimited envelope, name and category in clear.
C6_SuppliedSensitiveFieldsAreEnvelopes ==
    [][WriteUnlocked =>
          LET p == pushes'[Len(pushes')]
              rows == Row(vaultItems', p.id)
          IN  \A k \in 1..Len(rows), f \in DOMAIN p.arg :
                  /\ (f \in sensitiveFields /\ p.arg[f] # Undefined) =>
                         Len(split(rows[k][f])) = 3
                  /\ f \in {"name", "category"} => rows[k][f] = p.arg[f]]_vars

\* C6 (amended): ... every non-empty sensitive field supplied is stored as
\* the three-part envelope of its value under the master password; a
\* sensitive field supplied as the empty string is stored as the empty
\* string; name and category are stored in clear.
C6_NonEmptySensitiveFieldsAreEnvelopes ==
    [][WriteUnlocked =>
          LET p == pushes'[Len(pushes')]
              rows == Row(vaultItems', p.id)
          IN  \A k \in 1..Len(rows), f \in DOMAIN p.arg :
                  /\ (f \in sensitiveFields /\ Truthy(p.arg[f])) =>
                         isEnvelopeOf(rows[k][f], p.arg[f], masterPassword)
                  /\ (f \in sensitiveFields /\ p.arg[f] = EmptyString) =>
                         rows[k][f] = EmptyString
                  /\ f \in {"name", "category"} => rows[k][f] = p.arg[f]]_vars

\* an item added with a username and a password whose password was then
\* updated: both are stored as envelopes, the name in clear
C6_Witness ==
    /\ masterPassword # NoPassword
    /\ \E k \in 1..Len(vaultItems) :
           /\ vaultItems[k].name = "a"
           /\ vaultItems[k].category = "passwords"
           /\ isEnvelopeOf(vaultItems[k].username, <<Ch("u")>>, masterPassword)
           /\ isEnvelopeOf(vaultItems[k].password, <<Ch("q")>>, masterPassword)

(***************************************************************************)
(* Claims about VaultCrypto (CryptoSpec)                                    *)
(***************************************************************************)
otherPassword(w) == CHOOSE v \in Passwords : v # w

\* C7 (as stated): for all plaintexts P, the empty string included, and all
\* passwords W, decrypt(encrypt(P, W), W) returns P.
C7_RoundTripEveryPlaintext ==
    (crypto.op = "decrypted" /\ crypto.made = "encrypt" /\ crypto.decPw = crypto.pw)
        => crypto.res = Return(crypto.plain)

\* C7 (amended): for all non-empty plaintexts P and all passwords W,
\* decrypt(encrypt(P, W), W) returns P; for the empty plaintext it throws.
C7_RoundTripNonEmpty ==
    (crypto.op = "decrypted" /\ crypto.made = "encrypt" /\ crypto.decPw = crypto.pw)
        => IF crypto.plain # EmptyString
           THEN crypto.res = Return(crypto.plain)
           ELSE crypto.res = Throw(ErrDecrypt)

\* a plaintext holding colons has made the round trip
C7_Witness ==
    /\ crypto.op = "decrypted"
    /\ crypto.made = "encrypt"
    /\ crypto.decPw = crypto.pw
    /\ crypto.plain = <<Ch("x"), Colon, Ch("y"), Colon, Ch("z")>>
    /\ crypto.res = Return(crypto.plain)

\* C8: for all plaintexts P and passwords W1 # W2, decrypt(encrypt(P, W1), W2)
\* fails with the decryption error and never returns a string.
C8_WrongPasswordFails ==
    (crypto.op = "decrypted" /\ crypto.made = "encrypt" /\ crypto.decPw # crypto.pw)
        => crypto.res = Throw(ErrDecrypt)

\* the sensitive fields of a stored item whose decrypt throws under password w
Failing(item, w) ==
    {f \in sensitiveFields \cap DOMAIN item :
        Truthy(item[f]) /\ ~decrypt(item[f], w).ok}

\* C9: decryptVaultItem on a record in which exactly one sensitive field
\* cannot be decrypted (every other one being the envelope encryptVaultItem
\* made under the password) does not throw, returns every other sensitive
\* field as its plaintext, the failing field as stored, and the
\* non-sensitive fields unchanged.
C9_PartialFieldResilience ==
    (/\ crypto.op = "itemDecrypted"
     /\ crypto.decPw = crypto.pw
     /\ Cardinality(crypto.bad) = 1
     /\ Failing(crypto.item, crypto.decPw) = crypto.bad)
        => /\ crypto.out.ok
           /\ DOMAIN crypto.out.val = DOMAIN crypto.source
           /\ \A f \in DOMAIN crypto.source :
                  crypto.out.val[f] = IF f \in crypto.bad THEN crypto.item[f]
                                      ELSE crypto.source[f]

\* an item of four encrypted fields whose password envelope lost its third
\* part has been decrypted
C9_Witness ==
    /\ crypto.op = "itemDecrypted"
    /\ crypto.decPw = crypto.pw
    /\ crypto.source = Full
    /\ crypto.bad = {"password"}
    /\ Len(split(crypto.item["password"])) = 2
    /\ Failing(crypto.item, crypto.decPw) = {"password"}
    /\ crypto.out.ok
    /\ crypto.out.val["username"] = <<Ch("u")>>
    /\ crypto.out.val["password"] = crypto.item["password"]

\* the errors decrypt raises for a well-formed envelope under a wrong
\* password or with altered ciphertext
DecryptionFailures ==
    {decrypt(e, w).err :
        <<e, w>> \in {x \in UNION {{<<encrypt(p, v, r, anIV), otherPassword(v)>>,
                                    <<flipped(encrypt(p, v, r, anIV)), v>>} :
                                      p \in Plaintexts, v \in Passwords, r \in Salts} :
                         ~decrypt(x[1], x[2]).ok}}

\* C10: decrypt of a string that does not split into exactly three parts
\* fails with an error the caller can tell apart from the decryption failure.
C10_FormatErrorDistinct ==
    (crypto.op = "decrypted" /\ Len(split(crypto.input)) # 3)
        => /\ ~crypto.res.ok
           /\ crypto.res.err \notin DecryptionFailures

(***************************************************************************)
(* Claims about the reads (ReadSpec)                                        *)
(***************************************************************************)
\* C11: after clearMasterPassword, getAllItems, getItemById,
\* getItemsByCategory and searchItems return stored records exactly as
\* persisted, attempt no decryption and do not throw.
C11_LockedReadsReturnRowsAsStored ==
    [][(read' # read /\ masterPassword = NoPassword) =>
          /\ read'.result.ok
          /\ read'.decrypts = 0
          /\ \A i \in 1..Len(read'.result.val) :
                 \E k \in 1..Len(vaultItems') : read'.result.val[i] = vaultItems'[k]
          /\ read'.op = "getAllItems" => Len(read'.result.val) = Len(vaultItems')
          /\ read'.op = "getItemById" => read'.result.val = Row(vaultItems', read'.arg.id)]_vars

\* with the vault locked again, a search has returned an item whose
\* password and username are still the envelopes made under the password
C11_Witness ==
    /\ masterPassword = NoPassword
    /\ read.op = "searchItems"
    /\ read.pw = NoPassword
    /\ read.decrypts = 0
    /\ \E i \in 1..Len(read.result.val) :
           /\ isEnvelopeOf(read.result.val[i].password, <<Ch("p")>>, "w1")
           /\ isEnvelopeOf(read.result.val[i].username, <<Ch("u")>>, "w1")

(***************************************************************************)
(* Claims about AuthService (AuthSpec)                                      *)
(***************************************************************************)
\* the keys that can be built from what sessionStorage holds
StoredKeys == IF auth.session = Null THEN {} ELSE {sessionKey(auth.session[1].timestamp)}
\* the envelopes the browser's storage holds
StoredEnvelopes == {auth.validation, auth.sessionPassword} \ {Null}

\* C12: in every reachable state no browser storage holds the master
\* password in a form from which it can be recovered using only other stored
\* data.
C12_MasterPasswordNotRecoverableFromStorage ==
    \A w \in Passwords :
        hashMasterPassword(w) = auth.hash =>
            ~\E e \in StoredEnvelopes, k \in StoredKeys : decrypt(e, k) = Return(Text(w))

(***************************************************************************)
(* Claims about removeDuplicateItems (DedupeSpec)                           *)
(***************************************************************************)
\* the ids of the rows of a table that carry the key of row
SameKey(table, row) ==
    {table[k].id : k \in {j \in 1..Len(table) : itemKey(table[j]) = itemKey(row)}}

\* C13: after removeDuplicateItems no two stored items share the key (name,
\* category, createdAt), the item kept for each key is its first occurrence
\* (lowest id), and an immediately following second call removes 0 items
\* and leaves the store unchanged.
C13_DedupeKeepsFirstAndIsIdempotent ==
    [][calls' = calls + 1 =>
          /\ \A i, j \in 1..Len(vaultItems') :
                 itemKey(vaultItems'[i]) = itemKey(vaultItems'[j]) => i = j
          /\ \A i \in 1..Len(vaultItems') :
                 /\ \E k \in 1..Len(vaultItems) : vaultItems[k] = vaultItems'[i]
                 /\ \A id \in SameKey(vaultItems, vaultItems'[i]) : vaultItems'[i].id <= id
          /\ \A k \in 1..Len(vaultItems) : SameKey(vaultItems', vaultItems[k]) # {}
          /\ read'.result.val[1].removed = Len(vaultItems) - Len(vaultItems')
          /\ read.op = "removeDuplicateItems" =>
                 read'.result.val[1].removed = 0 /\ vaultItems' = vaultItems]_vars

\* a table of three rows whose first two shared a key has been cleaned and
\* a second call has removed nothing: rows 1 and 3 are left
C13_Witness ==
    /\ calls = 2
    /\ read.op = "removeDuplicateItems"
    /\ read.result.val[1] = [removed |-> 0, remaining |-> 2]
    /\ nextId = 4
    /\ Len(vaultItems) = 2
    /\ vaultItems[1].id = 1
    /\ vaultItems[2].id = 3

(***************************************************************************)
(* Claims about the file server's uploads and downloads (FilesSpec)         *)
(***************************************************************************)
\* POST /api/files/upload has answered with an error after the id was made
UploadFailed ==
    /\ fileServer.res.req = "upload"
    /\ fileServer.res.status = 500
    /\ fileServer.res.fileId # NoFileId

\* C14: after the upload responds with an error for a failure that occurred
\* after the file id was generated, neither <fileId>.enc nor <fileId>.meta
\* exists.
C14_FailedUploadLeavesNoArtifact ==
    UploadFailed =>
        /\ ~fileServer.files[fileServer.res.fileId].exists
        /\ ~fileServer.metadata[fileServer.res.fileId].exists

\* what the catch block does achieve: both artifacts are gone when no
\* fs.remove of the clean-up threw, and something stays when one did
FailedUploadCleanedUnlessRemoveThrows ==
    UploadFailed =>
        IF fileServer.res.cleanup = "done"
        THEN /\ ~fileServer.files[fileServer.res.fileId].exists
             /\ ~fileServer.metadata[fileServer.res.fileId].exists
        ELSE \/ fileServer.files[fileServer.res.fileId].exists
             \/ fileServer.metadata[fileServer.res.fileId].exists

\* C15: if the stored encrypted file body is altered after a successful
\* upload, GET /api/files/:fileId with the correct password never responds
\* 200 with other bytes: it fails with INTEGRITY_ERROR.
C15_AlteredBodyFailsIntegrityCheck ==
    \A fileId \in fileServer.altered :
        fileServer.metadata[fileId].exists =>
            downloadFile(fileServer, fileId, fileServer.owner[fileId]).code = "INTEGRITY_ERROR"

\* what does hold of an altered body: it is never served
AlteredBodyNeverServed ==
    \A fileId \in fileServer.altered, w \in Passwords :
        downloadFile(fileServer, fileId, w).status # 200

(***************************************************************************)
(* Claims about POST and GET /api/vault-items (SaveSpec)                    *)
(***************************************************************************)
\* C16: if POST /api/vault-items fails after the handler has started writing
\* the new snapshot, the response is a save error and the stored snapshot is
\* identical to the one before the request, also when there was none.
C16_FailedSaveLeavesSnapshotAsBefore ==
    \A r \in Requests :
        (/\ fileServer.posts[r].pc = "done"
         /\ fileServer.posts[r].status # 200
         /\ fileServer.posts[r].started)
            => /\ fileServer.posts[r].code = "SAVE_ERROR"
               /\ serverFile = fileServer.posts[r].before

\* what does hold of a failed save: it is answered as a save error
FailedSaveIsSaveError ==
    \A r \in Requests :
        (/\ fileServer.posts[r].pc = "done"
         /\ fileServer.posts[r].status # 200
         /\ fileServer.posts[r].started)
            => fileServer.posts[r].code = "SAVE_ERROR"

\* C17: after POST /api/vault-items with items X, each with a string id,
\* responds success, GET /api/vault-items with the same password returns
\* exactly X, whatever was stored before: a full overwrite, nothing merged.
C17_SuccessfulSaveIsFullOverwrite ==
    \A r \in Requests :
        (fileServer.posts[r].pc = "done" /\ fileServer.posts[r].status = 200)
            => getVaultItems(serverFile, fileServer.posts[r].pw)
                   = Return(fileServer.posts[r].items)

\* a save of one item answered success over a stored snapshot of two
C17_Witness ==
    \E r \in Requests :
        /\ fileServer.posts[r].pc = "done"
        /\ fileServer.posts[r].status = 200
        /\ fileServer.posts[r].before.exists
        /\ Len(fileServer.posts[r].before.items) = 2
        /\ fileServer.posts[r].items = <<ServerItem(StringId("a"), "m")>>
        /\ getVaultItems(serverFile, fileServer.posts[r].pw) = Return(<<ServerItem(StringId("a"), "m")>>)

(***************************************************************************)
(* Claims about uploadFileToServer and isAvailable (UploadSpec)            *)
(***************************************************************************)
\* the uploadFileToServer call has thrown
UploadThrew == upload.pc = "done" /\ upload.thrown # ""
\* the stored row of the item of the call
UploadRow == Row(vaultItems, upload.itemId)

\* C18: for every way uploadFileToServer(itemId, index) can fail, the item's
\* syncStatus is 'error' afterwards and the error thrown to the caller is
\* the original failure.
C18_EveryUploadFailureMarksSyncError ==
    UploadThrew =>
        /\ UploadRow # <<>>
        /\ UploadRow[1].syncStatus = "error"
        /\ upload.thrown = upload.original

\* what does hold: a failure of the probe, of the upload or of the persist
\* marks the item when the table can still be written
UploadFailureMarkedWhenTableWritable ==
    (UploadThrew /\ upload.thrown \in {ErrNotAvailable, ErrUploadFailed})
        => UploadRow # <<>> /\ UploadRow[1].syncStatus = "error"

\* the uploadFileToServer call has returned
UploadSucceeded == upload.pc = "done" /\ upload.thrown = ""
\* the item as getItemById returns it now, and as it did when the call began
UploadedItem == getItemById(vaultItems, upload.itemId, masterPassword).items[1]
ItemBefore == upload.before[1]
\* how often id occurs in ids
Occurrences(ids, id) == Cardinality({i \in 1..Len(ids) : ids[i] = id})

\* the attachment and the bookkeeping the upload leaves
UploadedFileIsHybrid ==
    LET fileData == UploadedItem.fileData[upload.fileIndex + 1]
    IN  /\ fileData.storageType = "hybrid"
        /\ fileData.serverId = upload.fileId
        /\ fileData.data = ItemBefore.fileData[upload.fileIndex + 1].data
        /\ Occurrences(UploadedItem.serverFileIds, StringId(upload.fileId)) = 1
        /\ UploadedItem.syncStatus = "synced"
        /\ \A i \in DOMAIN ItemBefore.fileData \ {upload.fileIndex + 1} :
              UploadedItem.fileData[i] = ItemBefore.fileData[i]

\* C19 (as stated): after uploadFileToServer succeeds the attachment is
\* hybrid with the returned serverId and its local bytes, serverFileIds has
\* that id exactly once, syncStatus is 'synced', and the item's other
\* attachments and fields keep their values.
C19_UploadKeepsEveryOtherField ==
    UploadSucceeded =>
        /\ UploadedFileIsHybrid
        /\ \A f \in DOMAIN ItemBefore \ {"fileData", "serverFileIds", "syncStatus"} :
              UploadedItem[f] = ItemBefore[f]

\* C19 (amended): ... and the item's other attachments and fields, as
\* getItemById returns them, keep their values, except useServerStorage,
\* which becomes true, and updatedAt, which is refreshed.
C19_UploadKeepsOtherFieldsButBookkeeping ==
    UploadSucceeded =>
        /\ UploadedFileIsHybrid
        /\ UploadedItem.useServerStorage = True
        /\ UploadedItem.updatedAt >= ItemBefore.updatedAt
        /\ \A f \in DOMAIN ItemBefore \ {"fileData", "serverFileIds", "syncStatus",
                                          "useServerStorage", "updatedAt"} :
              UploadedItem[f] = ItemBefore[f]

\* the second of two attachments was uploaded for an item that had an
\* uploaded one, a description under another password and a later clock
C19_Witness ==
    /\ UploadSucceeded
    /\ upload.fileIndex = 1
    /\ upload.fileId = "f2"
    /\ UploadedItem.serverFileIds = <<StringId("f1"), StringId("f2")>>
    /\ UploadedItem.fileData[1].serverId = "f1"
    /\ UploadedItem.fileData[2].storageType = "hybrid"
    /\ UploadedItem.updatedAt = 1
    /\ includesColon(ItemBefore.description)

\* C20: FileServerAPI.isAvailable always completes with a boolean and never
\* throws: a server that never answers cannot make the probe wait forever.
C20_IsAvailableAlwaysCompletes == (upload.pc = "probe") ~> (upload.pc # "probe")

\* what does hold: whatever the health request ends in, isAvailable returns
\* a boolean, true for a 2xx answer with status 'ok' only
IsAvailableIsBoolean ==
    \A outcome \in HealthOutcomes :
        /\ isAvailable(outcome) \in BOOLEAN
        /\ isAvailable(outcome) <=> outcome = "ok"

\* what does complete: the catch block once it is entered
MarkSyncErrorCompletes == (upload.pc = "catch") ~> (upload.pc = "done")

(***************************************************************************)
(* Claims about the results of the synchronisation calls (Spec)             *)
(***************************************************************************)
\* the step is one of push i alone
PushSteps(i) == Len(pushes') = Len(pushes) /\ calls' = calls /\ pushes'[i] # pushes[i]
\* a push has ended as { success: false, error }
PushFailedWith(p) == p.pc = "failed" /\ p.error # ""
\* autoSyncVaultItems has returned { success: false, ..., error }
AutoSyncFailed(s) == s.pc = "done" /\ ~s.result.success /\ s.result.error # ""

\* C21 (as stated): every RemoteGateway failure (probe, load or save) met by
\* autoSyncVaultItems is returned as a result with success = false and an
\* error message.
C21_EveryGatewayFailureIsSuccessFalse ==
    (sync.pc = "done" /\ sync.result.error # "") => ~sync.result.success

\* C21 (amended): neither call throws; with no active password both return
\* success = false without contacting the server or touching the table;
\* every failure of the load, of the save and of the push's probe is
\* returned as success = false with an error message, while autoSync
\* answers its own failed probe with success = true, action 'none' and a
\* message.
C21_GatewayFailuresAreResults ==
    [][/\ (sync.pc \in {"idle", "done"} /\ calls' = calls + 1 /\ sync' # sync
              /\ masterPassword = NoPassword)
          => /\ AutoSyncFailed(sync')
             /\ vaultItems' = vaultItems
             /\ serverFile' = serverFile
       /\ \A i \in 1..Len(pushes') :
             pushes'[i].pw = NoPassword
                => PushFailedWith(pushes'[i]) /\ (Len(pushes') > Len(pushes) => serverFile' = serverFile)
       /\ (sync.pc = "probe" /\ ~serverUp /\ sync' # sync)
          => /\ sync'.pc = "done"
             /\ sync'.result.success
             /\ sync'.result.action = "none"
             /\ sync'.result.error # ""
       /\ (sync.pc = "loadProbe" /\ ~serverUp /\ sync' # sync) => AutoSyncFailed(sync')
       /\ (sync.pc = "get" /\ sync' # sync /\ sync'.pc # "insert") => AutoSyncFailed(sync')
       /\ \A i \in 1..Len(pushes) :
             /\ (PushSteps(i) /\ pushes[i].pc = "probe" /\ ~serverUp)
                => PushFailedWith(pushes'[i])
             /\ (PushSteps(i) /\ pushes[i].pc = "save")
                => \/ /\ pushes'[i].pc = "done"
                      /\ pushes'[i].error = ""
                      /\ serverFile' = postVaultItems(serverFile, pushes[i].items,
                                                      pushes[i].pw)
                   \/ /\ PushFailedWith(pushes'[i])
                      /\ serverFile' = serverFile]_vars

\* autoSync has returned the failed load as a result while a push of an
\* addItem made with the vault locked has ended as a result too
C21_Witness ==
    /\ AutoSyncFailed(sync)
    /\ sync.result.action = "loaded"
    /\ \E i \in 1..Len(pushes) :
          /\ pushes[i].pw = NoPassword
          /\ PushFailedWith(pushes[i])

(***************************************************************************)
(* Claims about overlapping pushes (PushSpec)                               *)
(***************************************************************************)
\* what a push started now would send
LocalSnapshot == itemsForServer(getAllItems(vaultItems, masterPassword).items)

Ids(table) == {table[i].id : i \in 1..Len(table)}

\* C23: across addItem, deleteItem and autoSync (clear, then re-insert), the
\* key generator never goes back, every id a step assigns is at least the
\* generator's value before the step and below its value after it (so above
\* every id assigned earlier), and no two rows share an id.
C23_IdsStrictlyIncrease ==
    [][/\ nextId' >= nextId
       /\ \A id \in Ids(vaultItems') \ Ids(vaultItems) : nextId <= id /\ id < nextId'
       /\ \A id \in Ids(vaultItems') : id < nextId'
       /\ Cardinality(Ids(vaultItems')) = Len(vaultItems')]_vars

\* the only item was deleted and autoSync brought it back under a new id
C23_Witness ==
    /\ deletion.pc = "returned"
    /\ sync.pc = "done"
    /\ sync.result.action = "loaded"
    /\ sync.result.count = 1
    /\ Len(vaultItems) = 1
    /\ vaultItems[1].id = 2
    /\ nextId = 3

\* the deleteItem call takes a step
DeleteSteps == deletion' # deletion

\* C27: deleteItem(id) removes the row before any remote call: its delete
\* step leaves no row with that id, and while the probe or the remote delete
\* is under way, and once the call on a stored item has returned, no row has
\* that id; the probe and the remote delete leave the table as
\* it is, whatever they answer; every way the call ends (remote delete done,
\* failed, server unavailable, or skipped) is a return that has just started
\* a push.
C27_DeleteIsLocalFirstAndAlwaysPushes ==
    [][/\ (DeleteSteps /\ deletion.pc = "delete")
            => deletion.id \notin Ids(vaultItems')
       /\ (deletion'.pc \in {"probe", "remote", "returned"} /\ deletion'.item # <<>>)
            => deletion'.id \notin Ids(vaultItems')
       /\ (DeleteSteps /\ deletion.pc \in {"probe", "remote"})
            => /\ vaultItems' = vaultItems
               /\ deletion.id \notin Ids(vaultItems)
       /\ (DeleteSteps /\ deletion.pc = "remote")
            => /\ deletion'.pc = "returned"
               /\ deletion'.remote \in {"deleted", "failed"}
               /\ deletion'.remote = "failed" => serverFile' = serverFile
       /\ (DeleteSteps /\ deletion'.pc = "returned")
            => /\ deletion'.remote \in {"deleted", "failed", "unavailable", "skipped"}
               /\ Len(pushes') >= 1
               /\ pushes'[Len(pushes')].op = "delete"
               /\ pushes'[Len(pushes')].id = deletion.id
               /\ pushes'[Len(pushes')].call = callReturned(Void)
               /\ pushes'[Len(pushes')].pc =
                     (IF masterPassword = NoPassword THEN "failed" ELSE "probe")
               /\ pushes' = Append(InFlight(pushes), pushes'[Len(pushes')])]_vars

\* the server refused the remote delete; the row is gone and the push is out
C27_Witness ==
    /\ deletion.pc = "returned"
    /\ deletion.remote = "failed"
    /\ deletion.item # <<>>
    /\ deletion.id \notin Ids(vaultItems)
    /\ serverUp
    /\ \E i \in 1..Len(pushes) : pushes[i].op = "delete" /\ pushes[i].pc = "probe"

(***************************************************************************)
(* Claims about the backups of POST /api/vault-items (BackupSpec)          *)
(***************************************************************************)
\* the request r is answered 200 in this step
PostSucceeds(r) == fileServer.posts[r].pc = "verify" /\ fileServer'.posts[r].status = 200

\* the `keep` newest of a set of backups
newestBackups(backups) == backups \ oldBackups(backups)

\* C24 (as stated): after every successful POST /api/vault-items at most
\* five backup files remain, and they are the five most recently created.
C24_SuccessfulSaveKeepsFiveNewestBackups ==
    [][\A r \in Requests :
          PostSucceeds(r)
             => /\ Cardinality(fileServer'.backups) <= keep
                /\ fileServer'.backups = newestBackups(fileServer.backups)]_vars

\* what holds instead: a successful save removes none of the five newest
\* backups, and nothing but old backups
SuccessfulSaveKeepsTheFiveNewest ==
    [][\A r \in Requests :
          PostSucceeds(r)
             => /\ newestBackups(fileServer.backups) \subseteq fileServer'.backups
                /\ fileServer'.backups \subseteq fileServer.backups]_vars

\* a save answered 200 with six backups on the disk
SixBackupsAfterSuccess ==
    /\ Cardinality(fileServer.backups) > keep
    /\ \E r \in Requests : fileServer.posts[r].pc = "done" /\ fileServer.posts[r].status = 200

(***************************************************************************)
(* Claims about GET /api/files and GET /api/files/:fileId (FilesSpec)      *)
(***************************************************************************)
\* the metadata record of fileId is whole and was encrypted with password w
MadeWith(fileId, w) ==
    /\ fileServer.metadata[fileId].exists
    /\ fileServer.metadata[fileId].json
    /\ fileServer.metadata[fileId].encrypted[1].key.pw = w

\* C25: whatever metadata records are stored, and whichever password is
\* supplied, the listing GET /api/files builds is a 200: every record made
\* with that password is in files and not in errors, every other stored
\* record is in errors and not in files.
C25_ListingSeparatesFailingRecords ==
    \A w \in Passwords :
        LET listing == listFiles(fileServer, w)
            listed == {file.id : file \in listing.files}
            failed == {e.file : e \in listing.errors}
        IN  /\ listing.status = 200
            /\ \A fileId \in metadataFiles(fileServer) :
                  IF MadeWith(fileId, w)
                  THEN fileId \in listed /\ fileId \notin failed
                  ELSE fileId \in failed /\ fileId \notin listed
            /\ listed \cup failed = metadataFiles(fileServer)

\* a listing answered with one file listed and one record in errors
C25_Witness ==
    /\ fileServer.res.req = "list"
    /\ fileServer.res.status = 200
    /\ \E w \in Passwords :
          /\ fileServer.res = listFiles(fileServer, w)
          /\ fileServer.res.files # {}
          /\ fileServer.res.errors # {}
          /\ \E fileId \in FileIds : MadeWith(fileId, w)

\* both artifacts of fileId are stored, the metadata whole and encrypted
\* with a password other than w
WrongPassword(fileId, w) ==
    /\ fileServer.files[fileId].exists
    /\ fileServer.metadata[fileId].exists
    /\ fileServer.metadata[fileId].json
    /\ fileServer.metadata[fileId].encrypted[1].key.pw # w

\* C26 (as stated): GET /api/files/:fileId with both artifacts present and a
\* password that does not decrypt the metadata answers 401 DECRYPTION_ERROR.
C26_WrongPasswordIsDecryptionError ==
    \A fileId \in FileIds, w \in Passwords :
        WrongPassword(fileId, w)
           => /\ downloadFile(fileServer, fileId, w).status = 401
              /\ downloadFile(fileServer, fileId, w).code = "DECRYPTION_ERROR"

\* what holds instead: the answer is 500 DOWNLOAD_ERROR, which differs from
\* the 404 FILE_NOT_FOUND of a missing artifact
WrongPasswordIsDownloadError ==
    \A fileId \in FileIds, w \in Passwords :
        WrongPassword(fileId, w)
           => /\ downloadFile(fileServer, fileId, w).status = 500
              /\ downloadFile(fileServer, fileId, w).code = "DOWNLOAD_ERROR"

\* a download with the wrong password was answered
WrongPasswordDownloadAnswered ==
    /\ fileServer.res.req = "download"
    /\ fileServer.res.status = 500
    /\ \E w \in Passwords :
          /\ WrongPassword(fileServer.res.fileId, w)
          /\ fileServer.res = downloadFile(fileServer, fileServer.res.fileId, w)

(***************************************************************************)
(* Claims about downloadFileFromServer (DownloadSpec)                      *)
(***************************************************************************)
\* the downloadFileFromServer call takes a step
DownloadSteps == download' # download

\* C28: no step of downloadFileFromServer changes the table, the key
\* generator or the server's snapshot, or starts a push; a call made with
\* the vault locked throws without a request; and the attachment a call
\* returns has storageType 'server', the serverId it was given, the bytes
\* downloadFile answered and the name, type and size getFileMetadata
\* answered.
C28_DownloadReturnsServerAttachment ==
    [][DownloadSteps
         => /\ vaultItems' = vaultItems
            /\ nextId' = nextId
            /\ pushes' = pushes
            /\ serverFile' = serverFile
            /\ (download.pc # "blob" /\ download'.pc = "thrown")
                  => (masterPassword = NoPassword \/ download.pc = "metadata")
            /\ (masterPassword = NoPassword /\ download.pc \notin {"blob", "metadata"})
                  => download'.pc = "thrown" /\ download'.requests = 0
            /\ download'.pc = "returned"
                  => /\ download'.value.storageType = "server"
                     /\ download'.value.serverId = download.serverId
                     /\ download'.value.data = download.blob
                     /\ download'.value.name = download'.metadata.name
                     /\ download'.value.type = download'.metadata.type
                     /\ download'.value.size = download'.metadata.size]_vars

\* a download returned a file the server knows under another name than the
\* caller's, next to an item that holds attachments
C28_Witness ==
    /\ download.pc = "returned"
    /\ download.value.name # download.fileName
    /\ download.value.storageType = "server"
    /\ Len(vaultItems) = 1
    /\ vaultItems[1].fileData # Undefined
    /\ pushes = <<>>

(***************************************************************************)
(* Claims about the storage tier of attachments (TierSpec)                 *)
(***************************************************************************)
\* the attachments of the table's rows
Attachments ==
    UNION {{vaultItems[i].fileData[k] : k \in DOMAIN vaultItems[i].fileData} :
              i \in {j \in 1..Len(vaultItems) : vaultItems[j].fileData # Undefined}}

\* C29 (as stated): in every state of the table each 'hybrid' attachment has
\* its local bytes and a serverId, and each 'local' attachment has no
\* serverId.
C29_HybridHasBytesAndServerId ==
    \A file \in Attachments :
        /\ file.storageType = "hybrid"
              => file.data # EmptyObject /\ "serverId" \in DOMAIN file
        /\ file.storageType = "local" => "serverId" \notin DOMAIN file

\* what holds instead: the serverId goes with the tier
TierMatchesServerId ==
    \A file \in Attachments :
        /\ file.storageType = "hybrid" => "serverId" \in DOMAIN file
        /\ file.storageType = "local" => "serverId" \notin DOMAIN file

\* autoSync imported a hybrid attachment whose bytes the push did not carry
HybridWithoutBytesImported ==
    /\ sync.pc = "done"
    /\ sync.result.action = "loaded"
    /\ sync.result.count = 1
    /\ \E file \in Attachments : file.storageType = "hybrid" /\ file.data = EmptyObject

(***************************************************************************)
(* Claims about retryOperation (RetryLiveSpec)                             *)
(***************************************************************************)
\* the attempts made so far, all but the last, failed
EarlierAttemptsFailed ==
    \A k \in 1..(Len(retry.outcomes) - 1) : ~retry.outcomes[k].ok

\* what every state of a retryOperation call shows: at most maxRetries
\* attempts; the k-th wait is delay * k; a return follows the first success,
\* with one wait per earlier failure; a throw follows the maxRetries-th
\* failure, carries its error, and no wait comes after it
RetryState ==
    /\ Len(retry.outcomes) <= retry.maxRetries
    /\ retry.waits = [k \in 1..Len(retry.waits) |-> retry.delay * k]
    /\ EarlierAttemptsFailed
    /\ retry.pc = "attempt"
          => /\ Len(retry.outcomes) = retry.attempt - 1
             /\ Len(retry.waits) = Len(retry.outcomes)
             /\ retry.attempt <= retry.maxRetries
    /\ retry.pc = "returned"
          => /\ retry.outcomes # <<>>
             /\ retry.outcomes[Len(retry.outcomes)].ok
             /\ Len(retry.waits) = Len(retry.outcomes) - 1
    /\ retry.pc = "wait"
          => /\ ~retry.outcomes[Len(retry.outcomes)].ok
             /\ Len(retry.outcomes) < retry.maxRetries
             /\ Len(retry.waits) = Len(retry.outcomes)
    /\ retry.pc = "thrown"
          => /\ Len(retry.outcomes) = retry.maxRetries
             /\ ~retry.outcomes[Len(retry.outcomes)].ok
             /\ Len(retry.waits) = retry.maxRetries - 1

\* a call is under way / has ended
RetryRunning == retry.pc \in {"attempt", "wait"}
RetrySettled == retry.pc \in {"returned", "thrown"}

\* C30: retryOperation invokes the operation at most maxRetries times,
\* returns at the first success, waits delay * k after the k-th failure for
\* k < maxRetries, throws after the last failure without waiting; and when
\* every attempt settles and every timer fires, the call ends.
C30_RetryIsBoundedWithLinearBackoff ==
    /\ []RetryState
    /\ [][retry.pc \in {"returned", "thrown"} /\ retry' # retry
             => retry'.pc = "attempt" /\ retry'.outcomes = <<>>]_vars
    /\ RetryRunning ~> RetrySettled

\* three attempts failed, two waits of delay and 2 * delay between them
C30_Witness ==
    /\ retry.pc = "thrown"
    /\ retry.maxRetries = DefaultMaxRetries
    /\ retry.delay = DefaultDelay
    /\ retry.waits = <<DefaultDelay, 2 * DefaultDelay>>
    /\ Len(retry.outcomes) = 3

(***************************************************************************)
(* Claims about concurrent POST /api/vault-items handlers (RaceSpec)       *)
(***************************************************************************)
\* the requests that have arrived / all of them have been answered
Arrived == {r \in Requests : fileServer.posts[r].pc # "idle"}
AllResponded == Arrived # {} /\ \A r \in Arrived : fileServer.posts[r].pc = "done"
\* the file a request's items make
SnapshotOf(r) == postVaultItems(NoFile, fileServer.posts[r].items, fileServer.posts[r].pw)

\* C31 (as stated): once all concurrent POST /api/vault-items handlers have
\* responded, the stored snapshot is the items of one of the requests or the
\* snapshot present before them (or still no file): never an undecryptable
\* file.
C31_ConcurrentSavesLeaveOneInputOrBefore ==
    AllResponded
       => \/ serverFile \in {NoFile, StoredSnapshot}
          \/ \E r \in Arrived : serverFile = SnapshotOf(r)

\* both handlers answered SAVE_ERROR and vault-items.enc holds no JSON
BothFailedOverHalfWrittenFile ==
    /\ Arrived = Requests
    /\ \A r \in Requests : fileServer.posts[r].pc = "done" /\ fileServer.posts[r].status = 500
    /\ serverFile = PartialSnapshot

\* C37 (as stated): if a POST /api/vault-items responded success, then once
\* every concurrent handler has finished the stored snapshot is the input of
\* a request that responded success.
C37_VerifiedSaveSurvivesConcurrentFailure ==
    (AllResponded /\ \E r \in Arrived : fileServer.posts[r].status = 200)
       => \E r \in Arrived : fileServer.posts[r].status = 200 /\ serverFile = SnapshotOf(r)

\* one save answered success, the other restored its backup over it
OlderSnapshotRestoredOverVerifiedSave ==
    /\ Arrived = Requests
    /\ AllResponded
    /\ \E r \in Requests : fileServer.posts[r].status = 200
    /\ \E r \in Requests : fileServer.posts[r].status = 500
    /\ serverFile = StoredSnapshot

(***************************************************************************)
(* Claims about what the table holds in an unlocked session (UnlockedSpec) *)
(***************************************************************************)
\* C32 (as stated): while a master password is active, each non-empty
\* sensitive field of every stored item is a three-part envelope, also
\* after autoSync has imported a server snapshot.
C32_StoredSensitiveFieldsAreEnvelopes ==
    masterPassword # NoPassword
       => \A k \in 1..Len(vaultItems), f \in sensitiveFields :
             Truthy(vaultItems[k][f]) => Len(split(vaultItems[k][f])) = 3

\* what holds instead: the rows are envelopes until an import replaces them
EnvelopesUntilImported ==
    (masterPassword # NoPassword /\ sync.pc # "done")
       => \A k \in 1..Len(vaultItems), f \in sensitiveFields :
             Truthy(vaultItems[k][f]) => Len(split(vaultItems[k][f])) = 3

\* autoSync imported the item, and its password and username are stored as
\* the plain text the push sent
PlaintextImported ==
    /\ masterPassword = "w1"
    /\ sync.pc = "done"
    /\ sync.result.action = "loaded"
    /\ sync.result.count = 1
    /\ Len(vaultItems) = 1
    /\ vaultItems[1].password = Gmail.password
    /\ vaultItems[1].username = Gmail.username

(***************************************************************************)
(* Claims about deleteItem on a second client (SecondClientSpec)           *)
(***************************************************************************)
\* the items of the server snapshot that the step removes
RemovedRemotely ==
    {serverFile.items[k] : k \in 1..Len(serverFile.items)}
        \ {serverFile'.items[k] : k \in 1..Len(serverFile'.items)}

\* the server's item is a copy of the local one: same name, category and
\* creation time
SameLogicalItem(remote, local) ==
    itemKey(importRows(<<remote>>, 1)[1]) = itemKey(local)

\* the remote delete of deleteItem takes the item out of the snapshot
RemoteDeleteRemoves ==
    /\ deletion.pc = "remote"
    /\ deletion'.pc = "returned"
    /\ deletion'.remote = "deleted"

\* C33 (as stated): whenever deleteItem(id) removes an item from the server
\* snapshot, that item is the server's copy of the item deleted locally.
C33_RemoteDeleteRemovesTheSameItem ==
    [][RemoteDeleteRemoves
          => \A remote \in RemovedRemotely : SameLogicalItem(remote, deletion.item[1])]_vars

\* the second client deleted note "b" (its id 1) and the server dropped
\* note "a" (the first client's id 1)
OtherItemDeletedRemotely ==
    /\ deletion.pc = "returned"
    /\ deletion.remote = "deleted"
    /\ deletion.item[1].name = "b"
    /\ serverFile.exists
    /\ Len(serverFile.items) = 1
    /\ serverFile.items[1].name = "b"

(***************************************************************************)
(* Claims about the attachments of a deleted item (AttachmentSpec)         *)
(***************************************************************************)
\* deleteItem returned for an item with uploaded attachments, the server was
\* available and the remote delete succeeded
DeletedWithAttachments ==
    /\ deletion.pc = "returned"
    /\ deletion.remote = "deleted"
    /\ deletion.item[1].serverFileIds # Undefined
    /\ deletion.item[1].serverFileIds # <<>>

\* C34 (as stated): after deleteItem(id) completes for an item with uploaded
\* attachments, with the server available and every request succeeding, none
\* of the files named by its serverFileIds remains on the file server.
C34_DeleteItemRemovesAttachments ==
    DeletedWithAttachments
       => \A i \in 1..Len(deletion.item[1].serverFileIds) :
             /\ ~fileServer.files[deletion.item[1].serverFileIds[i].s].exists
             /\ ~fileServer.metadata[deletion.item[1].serverFileIds[i].s].exists

\* the item is gone from the table and from the snapshot, and its attachment
\* f1 is still downloaded from the file server
AttachmentOutlivesItem ==
    /\ DeletedWithAttachments
    /\ vaultItems = <<>>
    /\ serverFile.items = <<>>
    /\ fileServer.files["f1"].exists
    /\ fileServer.res.req = "download"
    /\ fileServer.res.status = 200

(***************************************************************************)
(* Claims about deleteItem and a server that does not answer               *)
(* (DeleteLiveSpec)                                                        *)
(***************************************************************************)
\* C35 (as stated): deleteItem(id) returns after the local delete even if
\* the server never answers the availability probe or the remote delete.
C35_DeleteItemReturnsWithoutServer ==
    (deletion.pc \in {"probe", "remote"}) ~> (deletion.pc = "returned")

\* what does complete: the local delete, which takes the row out of the
\* table whatever the server does
LocalDeleteCompletes == (deletion.pc = "delete") ~> (deletion.pc # "delete")

\* deleteItem waits for the health request with the row already deleted
DeleteItemWaitsForProbe ==
    /\ deletion.pc = "probe"
    /\ deletion.id \notin Ids(vaultItems)

(***************************************************************************)
(* Claims about a failing autoSync (ImportSpec)                            *)
(***************************************************************************)
\* C36 (as stated): whenever autoSyncVaultItems returns success = false,
\* because the load failed or because the import failed, the table holds
\* what it held before the call.
C36_FailedAutoSyncLeavesTableAsBefore ==
    (sync.pc = "done" /\ ~sync.result.success) => vaultItems = sync.before

\* what does hold: a call that fails before its items are loaded (no
\* password, server gone, GET refused) leaves the table as it was
FailedLoadLeavesTableAsBefore ==
    (sync.pc = "done" /\ ~sync.result.success /\ sync.result.error # ErrTransaction)
       => vaultItems = sync.before

\* the table held an item, the import failed and the table is empty
FailedImportEmptiedTable ==
    /\ sync.pc = "done"
    /\ sync.result = syncResult(FALSE, "loaded", 0, ErrTransaction)
    /\ Len(sync.before) = 1
    /\ vaultItems = <<>>

\* a load has failed with the item still in the table
FailedLoadKeptTable ==
    /\ sync.pc = "done"
    /\ ~sync.result.success
    /\ sync.result.action = "loaded"
    /\ sync.result.error # ErrTransaction
    /\ Len(vaultItems) = 1

(***************************************************************************)
(* Claims about saves under different master passwords (SaveSpec)          *)
(***************************************************************************)
\* the handler of request r answers 200 in this step
PostAnswersSuccess(r) ==
    /\ fileServer.posts[r].pc \notin {"idle", "done"}
    /\ fileServer'.posts[r].pc = "done"
    /\ fileServer'.posts[r].status = 200

\* C38 (as stated): a successful save under one master password never
\* changes what GET /api/vault-items returns under another.
C38_SavesAreIsolatedPerPassword ==
    [][\A r \in Requests :
          PostAnswersSuccess(r)
             => \A w \in Passwords \ {fileServer.posts[r].pw} :
                   getVaultItems(serverFile', w) = getVaultItems(fileServer.posts[r].before, w)]_vars

\* the snapshot saved under "w1" held an item; after the save under "w2"
\* was answered 200 GET under "w1" fails
SnapshotOfOtherPasswordDestroyed ==
    \E r \in Requests :
        /\ fileServer.posts[r].pc = "done"
        /\ fileServer.posts[r].status = 200
        /\ fileServer.posts[r].pw = "w2"
        /\ fileServer.posts[r].before.exists
        /\ fileServer.posts[r].before.pw = "w1"
        /\ getVaultItems(fileServer.posts[r].before, "w1").ok
        /\ getVaultItems(fileServer.posts[r].before, "w1").val # <<>>
        /\ ~getVaultItems(serverFile, "w1").ok

(***************************************************************************)
(* Claims about updateItem (UpdateSpec)                                    *)
(***************************************************************************)
\* updateItem is called in this step; its arguments are those of the push it
\* starts
UpdateItemStep ==
    /\ calls' = calls + 1
    /\ pushes' # pushes
    /\ pushes'[Len(pushes')].op = "update"
UpdatedId == pushes'[Len(pushes')].id
Updates == pushes'[Len(pushes')].arg

\* C39: updateItem(id, partial) changes only the fields present in partial
\* plus updatedAt on the item with that id: its id and createdAt, every field
\* absent from partial and every other item are unchanged, and an id the
\* table does not hold creates no item.
C39_UpdateTouchesOnlyNamedFields ==
    [][UpdateItemStep =>
          /\ Len(vaultItems') = Len(vaultItems)
          /\ \A i \in 1..Len(vaultItems) :
                IF vaultItems[i].id # UpdatedId
                THEN vaultItems'[i] = vaultItems[i]
                ELSE /\ vaultItems'[i].id = vaultItems[i].id
                     /\ vaultItems'[i].createdAt = vaultItems[i].createdAt
                     /\ vaultItems'[i].updatedAt = now
                     /\ \A f \in DOMAIN vaultItems[i] \ (DOMAIN Updates \cup {"updatedAt"}) :
                           vaultItems'[i][f] = vaultItems[i][f]
          /\ UpdatedId \notin Ids(vaultItems) => vaultItems' = vaultItems]_vars

\* item 1 was given a new password at time 1: its username is still the
\* envelope stored at time 0 and item 2 is the row stored at time 0
C39_Witness ==
    /\ pushes # <<>>
    /\ pushes[Len(pushes)].op = "update"
    /\ pushes[Len(pushes)].id = 1
    /\ "password" \in DOMAIN pushes[Len(pushes)].arg
    /\ Len(vaultItems) = 2
    /\ vaultItems[1].updatedAt = 1
    /\ vaultItems[1].createdAt = 0
    /\ vaultItems[1].password # addItemRow(Gmail, "w1", 0, 1, 0).password
    /\ vaultItems[1].username = addItemRow(Gmail, "w1", 0, 1, 0).username
    /\ vaultItems[2] = addItemRow(Note, NoPassword, 0, 2, 0)

(***************************************************************************)
(* Claims about changeMasterPassword (ChangeSpec)                          *)
(***************************************************************************)
\* the master password was changed to "w2" and login("w2") has returned true
LoggedInAfterChange ==
    /\ auth.hash = hashMasterPassword("w2")
    /\ auth.login = "none"
    /\ auth.ret = [op |-> "login", value |-> TRUE]
    /\ masterPassword = "w2"

\* C40 (as stated): after changeMasterPassword(current, new) succeeded and
\* the user logged in with the new password, getAllItems returns every item
\* stored before, its sensitive fields decrypted to the original plaintext.
C40_ItemsReadableAfterPasswordChange ==
    LoggedInAfterChange
       => LET items == getAllItems(vaultItems, masterPassword).items
          IN  /\ Len(items) = 1
              /\ items[1].password = Gmail.password
              /\ items[1].username = Gmail.username

\* after the change and the login the row is the one stored under "w1",
\* and getAllItems under "w2" does not return the password typed
ItemUnreadableAfterPasswordChange ==
    /\ LoggedInAfterChange
    /\ vaultItems = <<addItemRow(Gmail, "w1", 0, 1, 0)>>
    /\ getAllItems(vaultItems, masterPassword).items[1].password # Gmail.password

\* ... or, with a server that holds no snapshot, the login's autoSync has
\* emptied the table
ItemGoneAfterPasswordChange ==
    /\ LoggedInAfterChange
    /\ vaultItems = <<>>
====
